---- MODULE Spec2Model ----
(***************************************************************************)
(* The request pipeline of llm-gateway: the router assembled in main, the  *)
(* auth and rate-limit middleware, the Redis counter store, the tenant     *)
(* store with its cache, and Handler.CreateCompletion with its deferred    *)
(* bookkeeping goroutine.                                                  *)
(***************************************************************************)
EXTENDS Integers, Sequences, FiniteSets, TLC

(***************************************************************************)
(* Bounds of the model.                                                    *)
(***************************************************************************)
\* Number of HTTP requests the gateway serves in one behaviour.
NumReq == 2
\* Number of times the wall clock is observed to advance.
MaxTicks == 1

(***************************************************************************)
(* Program constants.                                                      *)
(***************************************************************************)
\* time.Now().Unix()/60: the width of one counter bucket, in seconds.
BucketSeconds == 60
\* s.client.Expire(ctx, key, 90*time.Second)
CounterTTL == 90
\* expiresAt: time.Now().Add(60 * time.Minute), in seconds.
CacheTTL == 60 * 60
\* http.MaxBytesReader(c.Writer, c.Request.Body, 10*1024*1024)
MaxBodyBytes == 10 * 1024 * 1024
\* len(chatReq.Messages) > 50
MaxMessages == 50
\* tenant.RPMLimit = 100 and tenant.TPMLimit = 100000 when the stored value is 0.
DefaultRPM == 100
DefaultTPM == 100000

Req == 1..NumReq

(***************************************************************************)
(* The tenant table (DynamoDB, keyed by api_key) as the gateway finds it.  *)
(* A stored limit of 0 is an unset attribute.                              *)
(***************************************************************************)
Tenant(id, rpm, tpm, allowed, active) ==
    [tenant_id |-> id, rpm_limit |-> rpm, tpm_limit |-> tpm,
     allowed_models |-> allowed, is_active |-> active]

ApiKeys == {<<"k1">>, <<"k2">>, <<"k3">>}

TenantTable ==
    (<<"k1">> :> Tenant("t1", 2, 15, <<"m1">>, TRUE))
 @@ (<<"k2">> :> Tenant("t2", 1, 0, <<"*">>, TRUE))
 @@ (<<"k3">> :> Tenant("t3", 1, 15, <<"m1">>, FALSE))

(***************************************************************************)
(* The model catalog (DynamoDB, keyed by model_id).                        *)
(***************************************************************************)
Model(id, urls, env) == [model_id |-> id, base_urls |-> urls, api_key_env |-> env]

ModelTable ==
    ("m1" :> Model("m1", <<"a", "b">>, "E1"))
 @@ ("m2" :> Model("m2", <<>>, "E2"))
 @@ ("m4" :> Model("m4", <<"c">>, "E4"))

(***************************************************************************)
(* State.                                                                  *)
(***************************************************************************)
VARIABLES
    now,        \* time.Now(), in seconds
    ticks,      \* how often the clock advanced
    directory,  \* the tenant table: api_key -> stored row
    cache,      \* DynamoDBTenantStore.cache: api_key -> cachedTenant
    rl,         \* the Redis keys of the counter store: key -> [count, expiresAt]
    inp,        \* the HTTP request of each caller
    pc,         \* the handler of the chain each request is in
    tenantCtx,  \* gin context slot "tenant" of each request
    resp,       \* what the caller has been answered
    hist,       \* per request: what the filters and the handler did
    loop,       \* per request: the locals of CreateCompletion
    cb,         \* the circuit breaker h.cb
    wg,         \* the counter of h.wg
    task,       \* per request: its bookkeeping goroutine
    usage,      \* the usage table: the records LogUsage stored
    main,       \* the main goroutine: where it is, ctx, what Shutdown saw
    reqCtx,     \* c.Request.Context() of each request: "live" or "canceled"
    mu,         \* DynamoDBTenantStore.mu: the request holding Lock, 0 if none
    frame       \* per request: the local `tenant` of a GetTenant under way

vars == <<now, ticks, directory, cache, rl, inp, pc, tenantCtx, resp, hist,
          loop, cb, wg, task, usage, main, reqCtx, mu, frame>>

\* The variables no middleware touches.
handlerVars == <<loop, cb, wg, task, usage>>

(***************************************************************************)
(* Contexts.                                                               *)
(***************************************************************************)
\* context.Background(): never canceled, no deadline.
Background == "live"

\* c.Request.Context(): canceled when the client's connection closes and
\* when the handler chain has returned.
RequestContext(r) ==
    IF reqCtx[r] = "canceled" \/ pc[r] = "done" THEN "canceled" ELSE "live"

\* A round trip to a store or an upstream made with ctx: it fails when ctx
\* is canceled, whatever the other side would have answered.
RoundTrip(ctx, ok) == ctx = "live" /\ ok

\* main before the interrupt signal: ctx and the results of the two
\* Shutdown calls are not there yet.
Serving ==
    [pc |-> "serving", deadline |-> -1, srvErr |-> "", done |-> FALSE,
     pending |-> {}, err |-> ""]

(***************************************************************************)
(* The router: r.Use(...) of main precedes every route registration, so    *)
(* gin prepends the global middleware to the handlers of every route.      *)
(***************************************************************************)
\* A variant of main that registers no admission filter.
GlobalMiddleware_NoRateLimit ==
    <<"otelgin", "MetricsMiddleware", "AuthMiddleware">>

GlobalMiddleware ==
    <<"otelgin", "MetricsMiddleware", "AuthMiddleware", "RateLimitMiddleware">>

RouteHandler(route) ==
    CASE route = "/v1/chat/completions" -> <<"CreateCompletion">>
      [] route = "/health" -> <<"health">>
      [] route = "/metrics" -> <<"promhttp">>

HandlersChain(route) == GlobalMiddleware \o RouteHandler(route)

\* otelgin and MetricsMiddleware call c.Next() before doing anything else.
CallsNextFirst == {"otelgin", "MetricsMiddleware"}

RECURSIVE HandlerFrom(_, _)
\* The first handler of chain at index >= i that can answer the request
\* itself, "done" when the chain is exhausted.
HandlerFrom(chain, i) ==
    IF i > Len(chain) THEN "done"
    ELSE IF chain[i] \in CallsNextFirst THEN HandlerFrom(chain, i + 1)
    ELSE chain[i]

IndexOf(chain, name) == CHOOSE i \in 1..Len(chain) : chain[i] = name

\* c.Next() called by the handler `name` of the chain of `route`.
CNext(route, name) ==
    HandlerFrom(HandlersChain(route), IndexOf(HandlersChain(route), name) + 1)

\* The handler gin enters first for a request on `route`.
FirstHandler(route) == HandlerFrom(HandlersChain(route), 1)

(***************************************************************************)
(* Responses written to the caller.  An absent value is <<>> where a       *)
(* record may stand, -1 where a number may stand, "" where a string may.   *)
(***************************************************************************)
\* c.AbortWithStatusJSON(status, gin.H{"error": msg}) and c.JSON(status, ...)
ErrorJSON(status, msg) ==
    [status |-> status, error |-> msg, limit |-> -1, retryAfter |-> "",
     by |-> "gateway", text |-> "", lines |-> <<>>, header |-> <<>>]

\* c.Header("Retry-After", "60"); c.AbortWithStatusJSON(429, {"error", "limit"})
RateLimitJSON(msg, limit) ==
    [status |-> 429, error |-> msg, limit |-> limit, retryAfter |-> "60",
     by |-> "gateway", text |-> "", lines |-> <<>>, header |-> <<>>]

\* What the model remembers of a request's way through the chain.
NoHist ==
    [lookup |-> <<>>,
     rpmVal |-> -1, rpmBucket |-> -1, rpmErr |-> FALSE, rpmPos |-> -1,
     tpmVal |-> -1, tpmSeen |-> {}, tpmPending |-> {}, tpmErr |-> FALSE, tpmReads |-> 0,
     incrBucket |-> -1,
     admitted |-> FALSE, handlerRan |-> FALSE,
     parsed |-> FALSE, catalogLookups |-> 0, scheduled |-> 0,
     ttft |-> <<>>, logged |-> 0, disconnect |-> <<>>,
     tpmCalls |-> 0, sinkCalls |-> <<>>,
     seen |-> <<>>, item |-> <<>>, stored |-> <<>>, cancelAt |-> <<>>]

(***************************************************************************)
(* Auth filter: AuthMiddleware and DynamoDBTenantStore.GetTenant.          *)
(***************************************************************************)
SP == " "

RECURSIVE Split(_)
\* strings.Split(h, " ") on a header given as a sequence of symbols: the
\* symbol SP separates, every other symbol is a piece of text; a part is the
\* concatenation of the pieces between two separators.
Split(h) ==
    IF h = <<>> THEN << <<>> >>
    ELSE LET rest == Split(Tail(h))
         IN  IF Head(h) = SP THEN << <<>> >> \o rest
             ELSE << <<Head(h)>> \o Head(rest) >> \o Tail(rest)

\* "3. Apply Defaults if missing" of GetTenant.
ApplyDefaults(row) ==
    [row EXCEPT !.rpm_limit = IF @ = 0 THEN DefaultRPM ELSE @,
                !.tpm_limit = IF @ = 0 THEN DefaultTPM ELSE @]

\* found && time.Now().Before(entry.expiresAt)
CacheHit(apiKey) ==
    apiKey \in DOMAIN cache /\ now < cache[apiKey].expiresAt

\* s.cache[apiKey] = cachedTenant{tenant, expiresAt: now + 60 min}
CachePut(apiKey, t) ==
    [k \in DOMAIN cache \cup {apiKey} |->
        IF k = apiKey THEN [tenant |-> t, expiresAt |-> now + CacheTTL]
        ELSE cache[k]]

\* A variant of GetTenant that does not look at is_active.
GetTenant_IgnoreActive(apiKey, dbOk) ==
    IF CacheHit(apiKey)
    THEN [tenant |-> <<cache[apiKey].tenant>>, err |-> "", cache |-> cache,
          fetched |-> FALSE]
    ELSE IF ~dbOk
    THEN [tenant |-> <<>>, err |-> "failed to get item from DynamoDB",
          cache |-> cache, fetched |-> TRUE]
    ELSE IF apiKey \notin DOMAIN directory
    THEN [tenant |-> <<>>, err |-> "", cache |-> cache, fetched |-> TRUE]
    ELSE LET t == ApplyDefaults(directory[apiKey])
         IN  [tenant |-> <<t>>, err |-> "", cache |-> CachePut(apiKey, t),
              fetched |-> TRUE]

\* GetTenant(ctx, apiKey): the tenant (<<>> for nil), the error ("" for nil)
\* and the cache it leaves.  dbOk: whether GetItem succeeds.
GetTenant(apiKey, dbOk) ==
    IF CacheHit(apiKey)
    THEN [tenant |-> <<cache[apiKey].tenant>>, err |-> "", cache |-> cache,
          fetched |-> FALSE]
    ELSE IF ~dbOk
    THEN [tenant |-> <<>>, err |-> "failed to get item from DynamoDB",
          cache |-> cache, fetched |-> TRUE]
    ELSE IF apiKey \notin DOMAIN directory
    THEN [tenant |-> <<>>, err |-> "", cache |-> cache, fetched |-> TRUE]
    ELSE IF ~directory[apiKey].is_active
    THEN [tenant |-> <<>>, err |-> "tenant is not active", cache |-> cache,
          fetched |-> TRUE]
    ELSE LET t == ApplyDefaults(directory[apiKey])
         IN  [tenant |-> <<t>>, err |-> "", cache |-> CachePut(apiKey, t),
              fetched |-> TRUE]

\* The row stored under apiKey in the tenant table, <<>> when there is none.
Row(apiKey) ==
    IF apiKey \in DOMAIN directory THEN <<directory[apiKey]>> ELSE <<>>

\* c.AbortWithStatusJSON: the answer is written and no later handler runs.
Abort(r, answer) ==
    /\ resp' = [resp EXCEPT ![r] = <<answer>>]
    /\ pc' = [pc EXCEPT ![r] = "done"]

\* A variant of the auth filter without its "tenant == nil" branch.
AuthAnswer_NoNilCheck(authHeader, got) ==
    IF authHeader = <<>>
    THEN <<ErrorJSON(401, "Missing Authorization header")>>
    ELSE IF Len(Split(authHeader)) # 2 \/ Split(authHeader)[1] # <<"Bearer">>
    THEN <<ErrorJSON(401, "Invalid Authorization header format")>>
    ELSE IF got.err # ""
    THEN <<ErrorJSON(401, "Invalid API Key")>>
    ELSE <<>>

\* The answer of the auth filter to a request it stops; <<>> when it lets
\* the request continue.
AuthAnswer(authHeader, got) ==
    IF authHeader = <<>>
    THEN <<ErrorJSON(401, "Missing Authorization header")>>
    ELSE IF Len(Split(authHeader)) # 2 \/ Split(authHeader)[1] # <<"Bearer">>
    THEN <<ErrorJSON(401, "Invalid Authorization header format")>>
    ELSE IF got.err # ""
    THEN <<ErrorJSON(401, "Invalid API Key")>>
    ELSE IF got.tenant = <<>>
    THEN <<ErrorJSON(401, "Invalid API Key")>>
    ELSE <<>>

\* Whether AuthMiddleware reaches tenantStore.GetTenant for this header.
WellFormed(authHeader) ==
    /\ authHeader # <<>>
    /\ Len(Split(authHeader)) = 2
    /\ Split(authHeader)[1] = <<"Bearer">>

AuthMiddleware(r) ==
    /\ pc[r] = "AuthMiddleware"
    /\ LET authHeader == inp[r].authorization
           got == IF WellFormed(authHeader)
                  THEN GetTenant(Split(authHeader)[2],
                                 RoundTrip(RequestContext(r), inp[r].env.tenantDb))
                  ELSE [tenant |-> <<>>, err |-> "", cache |-> cache,
                        fetched |-> FALSE]
           answer == AuthAnswer(authHeader, got)
       IN  /\ cache' = got.cache
           /\ hist' = [hist EXCEPT ![r].lookup =
                          IF WellFormed(authHeader)
                          THEN <<[key |-> Split(authHeader)[2],
                                  tenant |-> got.tenant, err |-> got.err,
                                  fetched |-> got.fetched,
                                  row |-> Row(Split(authHeader)[2])]>>
                          ELSE <<>>]
           /\ IF answer # <<>>
              THEN /\ Abort(r, answer[1])
                   /\ UNCHANGED tenantCtx
              ELSE /\ tenantCtx' = [tenantCtx EXCEPT ![r] = got.tenant]
                   /\ pc' = [pc EXCEPT ![r] =
                                CNext(inp[r].route, "AuthMiddleware")]
                   /\ UNCHANGED resp
    /\ UNCHANGED <<now, ticks, directory, rl, inp, main, reqCtx, mu, frame, handlerVars>>

(***************************************************************************)
(* GetTenant step by step: several requests run it at once, and what they  *)
(* share is the map s.cache, guarded by s.mu, and the tenant table.        *)
(***************************************************************************)
\* The api key AuthMiddleware hands to GetTenant.
ApiKey(r) == Split(inp[r].authorization)[2]

\* entry, found := s.cache[apiKey]; a missing key yields the zero entry.
Entry(apiKey) ==
    IF apiKey \in DOMAIN cache
    THEN [found |-> TRUE, tenant |-> <<cache[apiKey].tenant>>,
          expiresAt |-> cache[apiKey].expiresAt]
    ELSE [found |-> FALSE, tenant |-> <<>>, expiresAt |-> 0]

\* A variant of RLock that does not wait for the holder of Lock.
RLock_NoWait(m) == TRUE

\* s.mu.RLock() is granted while no goroutine holds s.mu.Lock().
RLock(m) == m = 0

\* What the read of s.cache[apiKey] can yield.  While another goroutine is
\* inside "s.cache[apiKey] = cachedTenant{...}" for the same key the read
\* races with the write: it can yield the old entry, the new one, or the
\* fields of the two mixed.
Views(apiKey) ==
    IF mu # 0 /\ ApiKey(mu) = apiKey
    THEN LET old == Entry(apiKey)
             new == [found |-> TRUE, tenant |-> frame[mu],
                     expiresAt |-> now + CacheTTL]
         IN  {old, new}
               \cup {[found |-> TRUE, tenant |-> a.tenant,
                      expiresAt |-> b.expiresAt] : a, b \in {old, new}}
    ELSE {Entry(apiKey)}

\* GetTenant returns `got` to AuthMiddleware, which answers 401 or stores the
\* tenant in the gin context and calls c.Next().  h: what is remembered of
\* the lookup.
AuthReturn(r, got, h) ==
    LET answer == AuthAnswer(inp[r].authorization, got)
    IN  /\ hist' = [hist EXCEPT ![r] =
                       [h EXCEPT !.lookup =
                           <<[key |-> ApiKey(r), tenant |-> got.tenant,
                              err |-> got.err, fetched |-> got.fetched,
                              row |-> IF h.item = <<>> THEN Row(ApiKey(r))
                                      ELSE h.item[1].row]>>]]
        /\ IF answer # <<>>
           THEN /\ Abort(r, answer[1])
                /\ UNCHANGED tenantCtx
           ELSE /\ tenantCtx' = [tenantCtx EXCEPT ![r] = got.tenant]
                /\ pc' = [pc EXCEPT ![r] =
                             CNext(inp[r].route, "AuthMiddleware")]
                /\ UNCHANGED resp

\* "1. Check Cache": the entry is read under RLock and returned when it has
\* not expired.
GetTenant_CheckCache(r) ==
    /\ pc[r] = "AuthMiddleware"
    /\ WellFormed(inp[r].authorization)
    /\ RLock(mu)
    /\ \E entry \in Views(ApiKey(r)) :
          LET h == [hist[r] EXCEPT !.seen = <<[entry |-> entry, at |-> now]>>]
          IN  IF entry.found /\ now < entry.expiresAt
              THEN AuthReturn(r, [tenant |-> entry.tenant, err |-> "",
                                  fetched |-> FALSE], h)
              ELSE /\ pc' = [pc EXCEPT ![r] = "GetTenant.GetItem"]
                   /\ hist' = [hist EXCEPT ![r] = h]
                   /\ UNCHANGED <<tenantCtx, resp>>
    /\ UNCHANGED <<now, ticks, directory, cache, rl, inp, main, reqCtx, mu, frame,
                   handlerVars>>

\* "2. Fetch from DynamoDB" and "3. Apply Defaults if missing": the row is
\* read, a missing or inactive one ends the lookup.
GetTenant_GetItem(r) ==
    /\ pc[r] = "GetTenant.GetItem"
    /\ LET dbOk == RoundTrip(RequestContext(r), inp[r].env.tenantDb)
           h == [hist[r] EXCEPT !.item =
                    <<[ok |-> dbOk, row |-> Row(ApiKey(r))]>>]
       IN  IF ~dbOk
           THEN /\ AuthReturn(r, [tenant |-> <<>>,
                                  err |-> "failed to get item from DynamoDB",
                                  fetched |-> TRUE], h)
                /\ UNCHANGED frame
           ELSE IF ApiKey(r) \notin DOMAIN directory
           THEN /\ AuthReturn(r, [tenant |-> <<>>, err |-> "",
                                  fetched |-> TRUE], h)
                /\ UNCHANGED frame
           ELSE IF ~directory[ApiKey(r)].is_active
           THEN /\ AuthReturn(r, [tenant |-> <<>>,
                                  err |-> "tenant is not active",
                                  fetched |-> TRUE], h)
                /\ UNCHANGED frame
           ELSE /\ frame' = [frame EXCEPT ![r] =
                                <<ApplyDefaults(directory[ApiKey(r)])>>]
                /\ pc' = [pc EXCEPT ![r] = "GetTenant.Lock"]
                /\ hist' = [hist EXCEPT ![r] = h]
                /\ UNCHANGED <<tenantCtx, resp>>
    /\ UNCHANGED <<now, ticks, directory, cache, rl, inp, main, reqCtx, mu,
                   handlerVars>>

\* "4. Update Cache": s.mu.Lock() waits until no goroutine holds the lock.
GetTenant_Lock(r) ==
    /\ pc[r] = "GetTenant.Lock"
    /\ mu = 0
    /\ mu' = r
    /\ pc' = [pc EXCEPT ![r] = "GetTenant.Update"]
    /\ UNCHANGED <<now, ticks, directory, cache, rl, inp, main, reqCtx, frame,
                   tenantCtx, resp, hist, handlerVars>>

\* s.cache[apiKey] = cachedTenant{&tenant, now + 60 min}; s.mu.Unlock();
\* return &tenant, nil
GetTenant_UpdateCache(r) ==
    /\ pc[r] = "GetTenant.Update"
    /\ cache' = CachePut(ApiKey(r), frame[r][1])
    /\ mu' = 0
    /\ frame' = [frame EXCEPT ![r] = <<>>]
    /\ AuthReturn(r, [tenant |-> frame[r], err |-> "", fetched |-> TRUE],
                  [hist[r] EXCEPT !.stored =
                      <<[key |-> ApiKey(r), tenant |-> frame[r][1],
                         expiresAt |-> now + CacheTTL, at |-> now]>>])
    /\ UNCHANGED <<now, ticks, directory, rl, inp, main, reqCtx, handlerVars>>

(***************************************************************************)
(* Counter store: RedisRateLimitStore.  A key that is absent counts 0; a   *)
(* key whose TTL has elapsed is removed by Redis (see Tick).               *)
(***************************************************************************)
\* time.Now().Unix()/60
Bucket(t) == t \div BucketSeconds

\* fmt.Sprintf("rate_limit:%s:%s:%d", kind, tenantID, time.Now().Unix()/60)
Key(kind, tenantID) == <<kind, tenantID, Bucket(now)>>

Count(store, key) == IF key \in DOMAIN store THEN store[key].count ELSE 0

\* A variant that writes n over the count: SET in place of INCRBY.
IncrBy_Overwrite(store, key, n) ==
    [k \in DOMAIN store \cup {key} |->
        IF k = key
        THEN [count |-> n,
              expiresAt |-> IF key \in DOMAIN store
                            THEN store[key].expiresAt ELSE -1]
        ELSE store[k]]

\* INCRBY key n: creates the key, without a TTL, when it is absent.
IncrBy(store, key, n) ==
    [k \in DOMAIN store \cup {key} |->
        IF k = key
        THEN [count |-> Count(store, key) + n,
              expiresAt |-> IF key \in DOMAIN store
                            THEN store[key].expiresAt ELSE -1]
        ELSE store[k]]

\* EXPIRE key ttl; its result is not looked at, so a failed EXPIRE (expOk
\* false) leaves the key without a TTL.
Expire(store, key, ttl, expOk) ==
    IF expOk THEN [store EXCEPT ![key].expiresAt = now + ttl] ELSE store

\* A variant of IncrementRPM that is not atomic: it returns the count read
\* before its own increment.
IncrementRPM_ReadThenIncr(tenantID, ok, expOk) ==
    IF ~ok THEN [val |-> 0, err |-> TRUE, rl |-> rl]
    ELSE LET key == Key("rpm", tenantID)
             s == IncrBy(rl, key, 1)
         IN  [val |-> Count(rl, key), err |-> FALSE,
              rl |-> IF s[key].count = 1 THEN Expire(s, key, CounterTTL, expOk)
                     ELSE s]

\* IncrementRPM(ctx, tenantID): the count returned, the error, the store left.
IncrementRPM(tenantID, ok, expOk) ==
    IF ~ok THEN [val |-> 0, err |-> TRUE, rl |-> rl]
    ELSE LET key == Key("rpm", tenantID)
             s == IncrBy(rl, key, 1)
             count == s[key].count
         IN  [val |-> count, err |-> FALSE,
              rl |-> IF count = 1 THEN Expire(s, key, CounterTTL, expOk) ELSE s]

\* IncrementTPM(ctx, tenantID, tokens)
IncrementTPM(tenantID, tokens, ok, expOk) ==
    IF ~ok THEN [val |-> 0, err |-> TRUE, rl |-> rl]
    ELSE LET key == Key("tpm", tenantID)
             s == IncrBy(rl, key, tokens)
             count == s[key].count
         IN  [val |-> count, err |-> FALSE,
              rl |-> IF count = tokens THEN Expire(s, key, CounterTTL, expOk)
                     ELSE s]

\* A variant of GetTPM that reads a store error as "no tokens used".
GetTPM_FailOpen(tenantID, ok) ==
    [val |-> IF ok THEN Count(rl, Key("tpm", tenantID)) ELSE 0, err |-> FALSE]

\* GetTPM(ctx, tenantID): redis.Nil (no such key) reads as 0.
GetTPM(tenantID, ok) ==
    IF ~ok THEN [val |-> 0, err |-> TRUE]
    ELSE [val |-> Count(rl, Key("tpm", tenantID)), err |-> FALSE]

(***************************************************************************)
(* Admission filter: RateLimitMiddleware, one step per store round trip.   *)
(***************************************************************************)
\* The requests whose INCR on the RPM key of (tenantID, bucket) was applied.
Counted(tenantID, bucket) ==
    {q \in Req : /\ hist[q].rpmVal # -1
                 /\ hist[q].rpmBucket = bucket
                 /\ tenantCtx[q] # <<>>
                 /\ tenantCtx[q][1].tenant_id = tenantID}

\* The requests whose goroutine's INCRBY on the TPM key of (tenantID, bucket)
\* was applied.
Added(tenantID, bucket) ==
    {q \in Req : /\ hist[q].incrBucket = bucket
                 /\ task[q].tid = tenantID}

\* The requests answered from upstream whose goroutine has not yet called
\* IncrementTPM.
Pending(tenantID) ==
    {q \in Req : task[q].state = "tpm" /\ task[q].tid = tenantID}

\* A variant of the RPM comparison that rejects at the limit.
OverRPM_AtLimit(currentRPM, tenant) == currentRPM >= tenant.rpm_limit

\* currentRPM > int64(tenant.RPMLimit)
OverRPM(currentRPM, tenant) == currentRPM > tenant.rpm_limit

\* A variant of the TPM comparison that rejects at the limit.
OverTPM_AtLimit(currentTPM, tenant) == currentTPM >= tenant.tpm_limit

\* currentTPM > int64(tenant.TPMLimit)
OverTPM(currentTPM, tenant) == currentTPM > tenant.tpm_limit

RateLimitMiddleware(r) ==
    /\ pc[r] = "RateLimitMiddleware"
    /\ IF tenantCtx[r] = <<>>
       THEN /\ Abort(r, ErrorJSON(500, "Tenant context missing"))
            /\ UNCHANGED <<rl, hist>>
       ELSE LET tenant == tenantCtx[r][1]
                got == IncrementRPM(tenant.tenant_id,
                           RoundTrip(RequestContext(r), inp[r].env.rpm),
                           RoundTrip(RequestContext(r), inp[r].env.expire))
            IN  /\ rl' = got.rl
                /\ IF got.err
                   THEN /\ Abort(r, ErrorJSON(500, "Rate limit check failed"))
                        /\ hist' = [hist EXCEPT ![r].rpmErr = TRUE]
                   ELSE /\ hist' = [hist EXCEPT
                               ![r].rpmVal = got.val,
                               ![r].rpmBucket = Bucket(now),
                               ![r].rpmPos = 1 + Cardinality(
                                   Counted(tenant.tenant_id, Bucket(now)))]
                        /\ IF OverRPM(got.val, tenant)
                           THEN Abort(r, RateLimitJSON("Rate limit exceeded (RPM)",
                                                       tenant.rpm_limit))
                           ELSE /\ pc' = [pc EXCEPT ![r] = "RateLimitMiddleware_TPM"]
                                /\ UNCHANGED resp
    /\ UNCHANGED <<now, ticks, directory, cache, inp, main, reqCtx, mu, frame, tenantCtx, handlerVars>>

RateLimitMiddleware_TPM(r) ==
    /\ pc[r] = "RateLimitMiddleware_TPM"
    /\ LET tenant == tenantCtx[r][1]
           got == GetTPM(tenant.tenant_id,
                         RoundTrip(RequestContext(r), inp[r].env.tpm))
       IN  IF got.err
           THEN /\ Abort(r, ErrorJSON(500, "Rate limit check failed (TPM)"))
                /\ hist' = [hist EXCEPT ![r].tpmErr = TRUE,
                                        ![r].tpmReads = @ + 1]
           ELSE /\ hist' = [hist EXCEPT
                       ![r].tpmVal = got.val,
                       ![r].tpmSeen = Added(tenant.tenant_id, Bucket(now)),
                       ![r].tpmPending = Pending(tenant.tenant_id),
                       ![r].tpmReads = @ + 1,
                       ![r].admitted = ~OverTPM(got.val, tenant)]
                /\ IF OverTPM(got.val, tenant)
                   THEN Abort(r, RateLimitJSON("Rate limit exceeded (TPM)",
                                               tenant.tpm_limit))
                   ELSE /\ pc' = [pc EXCEPT ![r] =
                                     CNext(inp[r].route, "RateLimitMiddleware")]
                        /\ UNCHANGED resp
    /\ UNCHANGED <<now, ticks, directory, cache, rl, inp, main, reqCtx, mu, frame, tenantCtx, handlerVars>>

(***************************************************************************)
(* Proxy handler, intake: from the entry of CreateCompletion to the retry  *)
(* loop.                                                                   *)
(***************************************************************************)
\* A request body: size is the number of bytes the caller delivers, readErr
\* whether the connection then breaks instead of ending, json whether the
\* bytes unmarshal into a ChatRequest, nmsgs/model/stream what they hold.
Body(size, readErr, json, nmsgs, model, stream) ==
    [size |-> size, readErr |-> readErr, json |-> json, nmsgs |-> nmsgs,
     model |-> model, stream |-> stream]

\* A variant of the size check that fails at the limit.
ReadBody_AtLimit(body, limit) ==
    IF body.size >= limit
    THEN [err |-> "http: request body too large", len |-> limit]
    ELSE IF body.readErr
    THEN [err |-> "unexpected EOF", len |-> body.size]
    ELSE [err |-> "", len |-> body.size]

\* ioutil.ReadAll over http.MaxBytesReader(w, body, limit): the reader
\* fails once more than limit bytes have been read.
ReadBody(body, limit) ==
    IF body.size > limit
    THEN [err |-> "http: request body too large", len |-> limit]
    ELSE IF body.readErr
    THEN [err |-> "unexpected EOF", len |-> body.size]
    ELSE [err |-> "", len |-> body.size]

\* for _, m := range tenant.AllowedModels { if m == "*" || m == model ... }
ModelAllowed(tenant, model) ==
    \E i \in 1..Len(tenant.allowed_models) :
        tenant.allowed_models[i] = "*" \/ tenant.allowed_models[i] = model

\* DynamoDBModelStore.GetModel: <<>> for nil.
GetModel(modelID, dbOk) ==
    IF ~dbOk THEN [model |-> <<>>, err |-> "failed to get model from DynamoDB"]
    ELSE IF modelID \notin DOMAIN ModelTable THEN [model |-> <<>>, err |-> ""]
    ELSE [model |-> <<ModelTable[modelID]>>, err |-> ""]

\* The process environment: os.Getenv(modelConfig.APIKeyEnv).
Getenv(name) == IF name = "E1" THEN "sk-upstream" ELSE ""

DigitOf == [c \in {"0", "1", "2", "3", "4", "5", "6", "7", "8", "9"} |->
               CASE c = "0" -> 0 [] c = "1" -> 1 [] c = "2" -> 2 [] c = "3" -> 3
                 [] c = "4" -> 4 [] c = "5" -> 5 [] c = "6" -> 6 [] c = "7" -> 7
                 [] c = "8" -> 8 [] c = "9" -> 9]

RECURSIVE ParseDigits(_, _)
\* The value of a string of decimal digits, -1 when a character is no digit.
ParseDigits(s, acc) ==
    IF s = <<>> THEN acc
    ELSE IF Head(s) \notin DOMAIN DigitOf THEN -1
    ELSE ParseDigits(Tail(s), 10 * acc + DigitOf[Head(s)])

\* strconv.Atoi on a header value given as a sequence of characters: an
\* optional sign, then at least one digit and nothing else.
Atoi(s) ==
    LET signed == s # <<>> /\ Head(s) \in {"+", "-"}
        digits == IF signed THEN Tail(s) ELSE s
        n == IF digits = <<>> THEN -1 ELSE ParseDigits(digits, 0)
    IN  IF n = -1 THEN [ok |-> FALSE, val |-> 0]
        ELSE [ok |-> TRUE, val |-> IF signed /\ Head(s) = "-" THEN 0 - n ELSE n]

\* "Retry Policy Config (Headers > Defaults)": retryMax.
RetryMax(hVal) ==
    IF hVal # <<>> /\ Atoi(hVal).ok /\ Atoi(hVal).val >= 0 /\ Atoi(hVal).val <= 10
    THEN Atoi(hVal).val ELSE 3

\* "Retry Policy Config (Headers > Defaults)": backoffMs.
BackoffMs(hVal) ==
    IF hVal # <<>> /\ Atoi(hVal).ok /\ Atoi(hVal).val >= 0
    THEN Atoi(hVal).val ELSE 100

\* http.Header: Set replaces the values of a name, Del removes the name.
HeaderSet(h, k, v) ==
    [x \in DOMAIN h \cup {k} |-> IF x = k THEN <<v>> ELSE h[x]]

HeaderDel(h, k) == [x \in DOMAIN h \ {k} |-> h[x]]

\* c.Request.Header as net/http hands it to the handlers: the header fields
\* of the request under their canonical names; the Host field is kept in
\* Request.Host and is no entry of the map.
RequestHeader(q) ==
    LET one(name, v) == IF v = <<>> THEN <<>> ELSE (name :> <<v>>)
    IN  one("Authorization", q.authorization)
        @@ one("X-Llm-Retry-Max", q.retryMaxHdr)
        @@ one("X-Llm-Retry-Backoff-Ms", q.backoffHdr)
        @@ q.header

\* The bytes ioutil.ReadAll returned: the first n bytes of what the caller
\* sent.
BodyBytesOf(body, n) ==
    [size |-> n, json |-> body.json, nmsgs |-> body.nmsgs, model |-> body.model,
     stream |-> body.stream]

\* The locals of CreateCompletion; reqHeader is c.Request.Header, calls the
\* number of h.cb.Execute calls, sent what was submitted upstream, slept the
\* time.Sleep calls, trail one entry for every iteration of the loop.
NoLoop ==
    [start |-> -1, bodyLen |-> -1, baseURLs |-> <<>>, apiKey |-> "", retryMax |-> -1,
     backoffMs |-> -1, attempt |-> 0, urlIndex |-> 0, resp |-> <<>>,
     lastErr |-> "", sent |-> <<>>, slept |-> <<>>,
     reqHeader |-> <<>>, bodyBytes |-> <<>>, calls |-> 0, trail |-> <<>>]

\* c.JSON(status, gin.H{"error": msg}); return -- in the last handler of
\* the chain.
Reply(r, answer) ==
    /\ resp' = [resp EXCEPT ![r] = <<answer>>]
    /\ pc' = [pc EXCEPT ![r] = "done"]

\* A variant of CreateCompletion that resolves the model before it checks
\* the tenant's allowed models.
Intake_CatalogFirst(tenantSlot, body, dbOk) ==
    LET read == ReadBody(body, MaxBodyBytes)
        got == GetModel(body.model, dbOk)
        Stop(status, msg, parsed, lookups) ==
            [answer |-> <<ErrorJSON(status, msg)>>, parsed |-> parsed,
             lookups |-> lookups, bodyLen |-> read.len, model |-> <<>>]
    IN  IF tenantSlot = <<>>
        THEN Stop(500, "Tenant context missing", FALSE, 0)
        ELSE IF read.err = "http: request body too large"
        THEN Stop(413, "Request body too large (limit: 10MB)", FALSE, 0)
        ELSE IF read.err # ""
        THEN Stop(400, "Failed to read request body", FALSE, 0)
        ELSE IF ~body.json
        THEN Stop(400, "Invalid JSON body", TRUE, 0)
        ELSE IF body.nmsgs > MaxMessages
        THEN Stop(400, "Too many messages in conversation (max: 50)", TRUE, 0)
        ELSE IF got.err # ""
        THEN Stop(500, "Failed to resolve model config", TRUE, 1)
        ELSE IF got.model = <<>>
        THEN Stop(404, "Model configuration not found", TRUE, 1)
        ELSE IF ~ModelAllowed(tenantSlot[1], body.model)
        THEN Stop(403, "Model not allowed for this tenant", TRUE, 1)
        ELSE IF Len(got.model[1].base_urls) = 0
        THEN Stop(500, "Misconfigured model: no base URLs", TRUE, 1)
        ELSE [answer |-> <<>>, parsed |-> TRUE, lookups |-> 1,
              bodyLen |-> read.len, model |-> got.model]

\* CreateCompletion up to the retry loop: the answer when it stops the
\* request (<<>> when it goes on), whether json.Unmarshal was reached, how
\* often the model catalog was consulted, and the body and model it found.
Intake(tenantSlot, body, dbOk) ==
    LET read == ReadBody(body, MaxBodyBytes)
        got == GetModel(body.model, dbOk)
        Stop(status, msg, parsed, lookups) ==
            [answer |-> <<ErrorJSON(status, msg)>>, parsed |-> parsed,
             lookups |-> lookups, bodyLen |-> read.len, model |-> <<>>]
    IN  IF tenantSlot = <<>>
        THEN Stop(500, "Tenant context missing", FALSE, 0)
        ELSE IF read.err = "http: request body too large"
        THEN Stop(413, "Request body too large (limit: 10MB)", FALSE, 0)
        ELSE IF read.err # ""
        THEN Stop(400, "Failed to read request body", FALSE, 0)
        ELSE IF ~body.json
        THEN Stop(400, "Invalid JSON body", TRUE, 0)
        ELSE IF body.nmsgs > MaxMessages
        THEN Stop(400, "Too many messages in conversation (max: 50)", TRUE, 0)
        ELSE IF ~ModelAllowed(tenantSlot[1], body.model)
        THEN Stop(403, "Model not allowed for this tenant", TRUE, 0)
        ELSE IF got.err # ""
        THEN Stop(500, "Failed to resolve model config", TRUE, 1)
        ELSE IF got.model = <<>>
        THEN Stop(404, "Model configuration not found", TRUE, 1)
        ELSE IF Len(got.model[1].base_urls) = 0
        THEN Stop(500, "Misconfigured model: no base URLs", TRUE, 1)
        ELSE [answer |-> <<>>, parsed |-> TRUE, lookups |-> 1,
              bodyLen |-> read.len, model |-> got.model]

CreateCompletion(r) ==
    /\ pc[r] = "CreateCompletion"
    /\ LET in == Intake(tenantCtx[r], inp[r].body,
                     RoundTrip(RequestContext(r), inp[r].env.catalog))
       IN  /\ hist' = [hist EXCEPT
                  ![r].handlerRan = TRUE,
                  ![r].parsed = in.parsed,
                  ![r].catalogLookups = @ + in.lookups]
           /\ IF in.answer # <<>>
              THEN /\ Reply(r, in.answer[1])
                   /\ UNCHANGED loop
              ELSE /\ loop' = [loop EXCEPT ![r] =
                          [NoLoop EXCEPT
                              !.start = now,
                              !.bodyLen = in.bodyLen,
                              !.bodyBytes = BodyBytesOf(inp[r].body, in.bodyLen),
                              !.reqHeader = RequestHeader(inp[r]),
                              !.baseURLs = in.model[1].base_urls,
                              !.apiKey = Getenv(in.model[1].api_key_env),
                              !.retryMax = RetryMax(inp[r].retryMaxHdr),
                              !.backoffMs = BackoffMs(inp[r].backoffHdr)]]
                   /\ pc' = [pc EXCEPT ![r] = "retry"]
                   /\ UNCHANGED resp
    /\ UNCHANGED <<now, ticks, directory, cache, rl, inp, main, reqCtx, mu, frame, tenantCtx, cb, wg,
                   task, usage>>

(***************************************************************************)
(* Circuit breaker: gobreaker with the Settings of NewHandler.  Execute is *)
(* taken as one step, so a call always ends in the generation it began in. *)
(***************************************************************************)
\* MaxRequests: 5
CBMaxRequests == 5
\* Interval: 60 * time.Second
CBInterval == 60
\* Timeout: 30 * time.Second
CBTimeout == 30
\* counts.Requests >= 10
CBMinRequests == 10

\* ReadyToTrip: Requests >= 10 && TotalFailures/Requests >= 0.6
ReadyToTrip(counts) ==
    counts.requests >= CBMinRequests /\ 10 * counts.failures >= 6 * counts.requests

\* A new generation: the counts are cleared and the expiry follows the state.
CBEnter(state, t) ==
    [state |-> state, requests |-> 0, failures |-> 0, consecSucc |-> 0,
     expiry |-> CASE state = "closed" -> t + CBInterval
                  [] state = "open" -> t + CBTimeout
                  [] state = "half-open" -> -1]

\* currentState(now): a closed breaker whose interval elapsed starts a new
\* generation; an open one whose timeout elapsed becomes half-open.
CBCurrent(b, t) ==
    IF b.state = "closed" /\ b.expiry # -1 /\ b.expiry < t THEN CBEnter("closed", t)
    ELSE IF b.state = "open" /\ b.expiry < t THEN CBEnter("half-open", t)
    ELSE b

\* A variant of beforeRequest that lets calls through an open breaker.
CBBefore_NeverOpen(b, t) ==
    LET cur == CBCurrent(b, t)
    IN  IF cur.state = "half-open" /\ cur.requests >= CBMaxRequests
        THEN [err |-> "too many requests", cb |-> cur]
        ELSE [err |-> "", cb |-> [cur EXCEPT !.requests = @ + 1]]

\* beforeRequest: the error, and the breaker with the request counted.
CBBefore(b, t) ==
    LET cur == CBCurrent(b, t)
    IN  IF cur.state = "open" THEN [err |-> "open", cb |-> cur]
        ELSE IF cur.state = "half-open" /\ cur.requests >= CBMaxRequests
        THEN [err |-> "too many requests", cb |-> cur]
        ELSE [err |-> "", cb |-> [cur EXCEPT !.requests = @ + 1]]

\* afterRequest(generation, success), success being err == nil of the call.
CBAfter(b, t, success) ==
    IF success
    THEN LET c == [b EXCEPT !.consecSucc = @ + 1]
         IN  IF b.state = "half-open" /\ c.consecSucc >= CBMaxRequests
             THEN CBEnter("closed", t) ELSE c
    ELSE LET c == [b EXCEPT !.failures = @ + 1, !.consecSucc = 0]
         IN  IF b.state = "half-open" THEN CBEnter("open", t)
             ELSE IF ReadyToTrip(c) THEN CBEnter("open", t) ELSE c

(***************************************************************************)
(* Proxy handler, retry loop: one iteration per step.                      *)
(***************************************************************************)
\* What an upstream does with one submitted request.
TransportError == [err |-> TRUE, status |-> 0, lines |-> <<>>, header |-> <<>>]
Response(status, lines) ==
    [err |-> FALSE, status |-> status, lines |-> lines, header |-> <<>>]

\* An upstream response with header fields: header maps a name to the list
\* of its values, as http.Header does.
ResponseWith(status, lines, header) ==
    [err |-> FALSE, status |-> status, lines |-> lines, header |-> header]

\* The outcome of the k-th request this caller's handler submits upstream.
Outcome(r, k) ==
    LET script == inp[r].upstream
    IN  script[IF k <= Len(script) THEN k ELSE Len(script)]

RECURSIVE Pow2(_)
Pow2(n) == IF n <= 0 THEN 1 ELSE 2 * Pow2(n - 1)

\* backoffMs * time.Millisecond * math.Pow(retryFactor, attempt-1), in ms.
SleepTime(backoffMs, attempt) == backoffMs * Pow2(attempt - 1)

\* A variant of the success condition that accepts 2xx only.
Success_Only2xx(l) == l.lastErr = "" /\ l.resp[1].status < 300

\* lastErr == nil && resp.StatusCode < 500 && resp.StatusCode != 429
Success(l) == l.lastErr = "" /\ l.resp[1].status < 500 /\ l.resp[1].status # 429


\* A variant that moves to the next URL after a 429 only.
ShouldFailover_Only429(l) == l.lastErr = "" /\ l.resp[1].status = 429

\* lastErr != nil || resp.StatusCode >= 500 || resp.StatusCode == 429
ShouldFailover(l) ==
    l.lastErr # "" \/ l.resp[1].status >= 500 \/ l.resp[1].status = 429

\* A variant of the loop that runs while attempt <= retryMax + 1.
AfterExecute_OneMore(l) ==
    IF Success(l) THEN [loop |-> l, exit |-> TRUE]
    ELSE LET a == [l EXCEPT !.attempt = @ + 1,
                            !.urlIndex = IF ShouldFailover(l) THEN @ + 1 ELSE @]
             skip == a.resp # <<>> /\ a.resp[1].status = 429 /\ ShouldFailover(l)
         IN  [loop |-> IF a.attempt <= a.retryMax + 1 /\ ~skip
                       THEN [a EXCEPT !.slept =
                               Append(@, SleepTime(a.backoffMs, a.attempt))]
                       ELSE a,
              exit |-> ~(a.attempt <= a.retryMax + 1)]

\* A variant that sleeps before every further attempt, also after a 429.
AfterExecute_AlwaysSleeps(l) ==
    IF Success(l) THEN [loop |-> l, exit |-> TRUE]
    ELSE LET a == [l EXCEPT !.attempt = @ + 1,
                            !.urlIndex = IF ShouldFailover(l) THEN @ + 1 ELSE @]
         IN  [loop |-> IF a.attempt <= a.retryMax
                       THEN [a EXCEPT !.slept =
                               Append(@, SleepTime(a.backoffMs, a.attempt))]
                       ELSE a,
              exit |-> ~(a.attempt <= a.retryMax)]

\* The body of the for loop after cb.Execute returned: l holds resp and
\* lastErr as Execute left them.
AfterExecute(l) ==
    IF Success(l) THEN [loop |-> l, exit |-> TRUE]
    ELSE LET a == [l EXCEPT !.attempt = @ + 1,
                            !.urlIndex = IF ShouldFailover(l) THEN @ + 1 ELSE @]
             skip == a.resp # <<>> /\ a.resp[1].status = 429 /\ ShouldFailover(l)
         IN  [loop |-> IF a.attempt <= a.retryMax /\ ~skip
                       THEN [a EXCEPT !.slept =
                               Append(@, SleepTime(a.backoffMs, a.attempt))]
                       ELSE a,
              exit |-> ~(a.attempt <= a.retryMax)]

\* textproto.CanonicalMIMEHeaderKey on the names the handler passes.
CanonicalMIMEHeaderKey(k) ==
    CASE k = "X-LLM-Retry-Max" -> "X-Llm-Retry-Max"
      [] k = "X-LLM-Retry-Backoff-Ms" -> "X-Llm-Retry-Backoff-Ms"
      [] OTHER -> k

\* A variant of the request construction that leaves the override headers in.
ProxyHeader_KeepsOverrides(h, apiKey) ==
    [proxy |-> HeaderDel(HeaderSet(h, CanonicalMIMEHeaderKey("Authorization"),
                                   <<"Bearer", SP, apiKey>>),
                         CanonicalMIMEHeaderKey("Host")),
     request |-> h]

\* proxyReq.Header = c.Request.Header.Clone(); Set("Authorization", ...);
\* Del("Host"); Del("X-LLM-Retry-Max"); Del("X-LLM-Retry-Backoff-Ms").
\* proxy is the header of the upstream request, request what c.Request.Header
\* holds afterwards.
ProxyHeader(h, apiKey) ==
    LET clone == h
        set == HeaderSet(clone, CanonicalMIMEHeaderKey("Authorization"),
                         <<"Bearer", SP, apiKey>>)
        d1 == HeaderDel(set, CanonicalMIMEHeaderKey("Host"))
        d2 == HeaderDel(d1, CanonicalMIMEHeaderKey("X-LLM-Retry-Max"))
        d3 == HeaderDel(d2, CanonicalMIMEHeaderKey("X-LLM-Retry-Backoff-Ms"))
    IN  [proxy |-> d3, request |-> h]

\* A variant that hands the upstream request c.Request.Body, the reader the
\* handler restored once, which the first attempt reads to its end.
ProxyBody_RequestBody(l) ==
    [bytes |-> l.bodyBytes, from |-> IF l.sent = <<>> THEN 0 ELSE l.bodyBytes.size]

\* bytes.NewBuffer(bodyBytes): what the upstream reads is bodyBytes from
\* offset `from` on.
ProxyBody(l) == [bytes |-> l.bodyBytes, from |-> 0]

\* A variant that forgets the error of an attempt when an earlier attempt
\* left a response.
Executed_KeepsResponse(l, out) ==
    IF out.err
    THEN [l EXCEPT !.lastErr = IF l.resp = <<>> THEN "transport" ELSE ""]
    ELSE [l EXCEPT !.resp = <<out>>, !.lastErr = ""]

\* What the handler does with the result of h.cb.Execute when the call went
\* upstream: "lastErr = cbErr", or "resp = respInterface.(*http.Response);
\* lastErr = nil".  resp keeps its value when the call failed.
Executed(l, out) ==
    IF out.err
    THEN [l EXCEPT !.lastErr = "transport"]
    ELSE [l EXCEPT !.resp = <<out>>, !.lastErr = ""]

\* The entry of the trail for one iteration: l is the loop before it, got
\* the loop as cb.Execute left it, after what AfterExecute made of it.
Iteration(l, url, call, got, after) ==
    [url |-> url, call |-> call, err |-> got.lastErr,
     present |-> got.resp # <<>>,
     status |-> IF got.lastErr = "" THEN got.resp[1].status ELSE 0,
     attempt |-> after.loop.attempt,
     headAttempt |-> l.attempt, headIndex |-> l.urlIndex,
     urlIndex |-> after.loop.urlIndex,
     breaker |-> CBCurrent(cb, now).state,
     slept |-> IF Len(after.loop.slept) > Len(l.slept)
               THEN after.loop.slept[Len(after.loop.slept)] ELSE -1,
     exit |-> after.exit]

Attempt(r) ==
    /\ pc[r] = "retry"
    /\ LET l == [loop[r] EXCEPT !.calls = @ + 1]
           currentURL == l.baseURLs[(l.urlIndex % Len(l.baseURLs)) + 1]
           built == ProxyHeader(l.reqHeader, l.apiKey)
           before == CBBefore(cb, now)
       IN  IF before.err = "open"
           THEN \* cbErr == gobreaker.ErrOpenState: break
                LET got == [l EXCEPT !.lastErr = before.err,
                                     !.reqHeader = built.request]
                    after == [loop |-> got, exit |-> TRUE]
                IN  /\ cb' = before.cb
                    /\ loop' = [loop EXCEPT ![r] =
                           [got EXCEPT !.trail = Append(@,
                               Iteration(l, currentURL, "open", got, after))]]
                    /\ pc' = [pc EXCEPT ![r] = "respond"]
           ELSE IF before.err # ""
           THEN LET got == [l EXCEPT !.lastErr = before.err,
                                     !.reqHeader = built.request]
                    after == AfterExecute(got)
                IN  /\ cb' = before.cb
                    /\ loop' = [loop EXCEPT ![r] =
                           [after.loop EXCEPT !.trail = Append(@,
                               Iteration(l, currentURL, "refused", got, after))]]
                    /\ pc' = [pc EXCEPT ![r] =
                                 IF after.exit THEN "respond" ELSE "retry"]
           ELSE LET \* httpClient.Do returns the error of a canceled context
                    out == IF RequestContext(r) = "live"
                           THEN Outcome(r, Len(l.sent) + 1)
                           ELSE TransportError
                    sent == [l EXCEPT !.sent = Append(@,
                                [url |-> currentURL, bodyLen |-> l.bodyLen,
                                 authorization |-> <<"Bearer", SP, l.apiKey>>,
                                 header |-> built.proxy,
                                 body |-> ProxyBody(l)]),
                             !.reqHeader = built.request]
                    got == Executed(sent, out)
                    after == AfterExecute(got)
                IN  /\ cb' = CBAfter(before.cb, now, ~out.err)
                    /\ loop' = [loop EXCEPT ![r] =
                           [after.loop EXCEPT !.trail = Append(@,
                               Iteration(l, currentURL, "sent", got, after))]]
                    /\ pc' = [pc EXCEPT ![r] =
                                 IF after.exit THEN "respond" ELSE "retry"]
    /\ UNCHANGED <<now, ticks, directory, cache, rl, inp, main, reqCtx, mu, frame, tenantCtx, resp,
                   hist, wg, task, usage>>

(***************************************************************************)
(* Proxy handler, after the loop: 502 or response passthrough, and the     *)
(* bookkeeping goroutine.                                                  *)
(***************************************************************************)
\* An upstream body is a sequence of lines.  A line has a kind, the number
\* of bytes of its variable part and its terminator:
\*   "data"   data: {"choices":[{"delta":{"content":"..."}}]}, content bytes
\*   "done"   data: [DONE]
\*   "empty"  data: {"choices":[]}
\*   "bad"    data: followed by content bytes that are no JSON
\*   "other"  content bytes that do not begin with "data: "
\*   "blank"  nothing
\* The terminator is "\n", "\r\n", or "" for a last line cut off by the end
\* of the body or by a failing read.  An element of kind "err" is no line:
\* it marks the place where Read on the body returns an error, and what
\* follows it is never received.
Line(kind, content, term) == [kind |-> kind, content |-> content, term |-> term]

Data(n) == Line("data", n, "\n")
Done == Line("done", 0, "\n")
Blank == Line("blank", 0, "\n")
ReadError == Line("err", 0, "")

\* len of the line without its terminator.
LineBytes(line) ==
    CASE line.kind = "data" -> 44 + line.content
      [] line.kind = "done" -> 12
      [] line.kind = "empty" -> 20
      [] line.kind = "bad" -> 6 + line.content
      [] line.kind = "other" -> line.content
      [] line.kind = "blank" -> 0
      [] line.kind = "err" -> 0

\* len of a terminator.
TermBytes(term) == CASE term = "\n" -> 1 [] term = "\r\n" -> 2 [] term = "" -> 0

RECURSIVE BodyBytes(_)
\* len(body) of ioutil.ReadAll(resp.Body): every line and its terminator.
BodyBytes(lines) ==
    IF lines = <<>> THEN 0
    ELSE LineBytes(Head(lines)) + TermBytes(Head(lines).term) + BodyBytes(Tail(lines))

RECURSIVE Received(_)
\* What a reader gets of the body: the lines before the first failing Read.
Received(lines) ==
    IF lines = <<>> \/ Head(lines).kind = "err" THEN <<>>
    ELSE <<Head(lines)>> \o Received(Tail(lines))

\* bufio.MaxScanTokenSize, the buffer limit of bufio.NewScanner.
MaxScanTokenSize == 64 * 1024

\* bufio.Scanner with ScanLines gives up (ErrTooLong) when its buffer is full
\* and holds no "\n": the bytes of the line before the "\n", a "\r" included,
\* reach the limit.
TooLong(line) ==
    LineBytes(line) + (IF line.term = "\r\n" THEN 1 ELSE 0) >= MaxScanTokenSize

\* A variant of the count that rounds up.
ContentTokens_RoundUp(line) ==
    IF line.kind = "data" THEN (line.content + 3) \div 4 ELSE 0

\* "Token Counting Logic" of streamResponse for one line: len(content) / 4
\* for a line with the prefix "data: " whose payload is not [DONE], parses
\* and has a choice; 0 for every other line.
ContentTokens(line) ==
    IF line.kind = "data" THEN line.content \div 4 ELSE 0

\* The state of the pump before the first line.
NoLines == [out |-> <<>>, tokens |-> 0, firstByte |-> TRUE, ttft |-> <<>>,
            stopped |-> FALSE]

\* A variant of the loop body that never clears firstByte.
ScanLine_KeepsFirstByte(st, line) ==
    IF st.stopped \/ line.kind = "err" \/ TooLong(line)
    THEN [st EXCEPT !.stopped = TRUE]
    ELSE [st EXCEPT
             !.ttft = IF st.firstByte THEN Append(@, Len(st.out) + 1) ELSE @,
             !.out = Append(@, [line EXCEPT !.term = "\n"]),
             !.tokens = @ + ContentTokens(line)]

\* One round of "for scanner.Scan() { ... }": the scanner yields the line
\* without its terminator, or ends the loop -- at a line that is too long
\* and at a failing Read, after it has yielded what it held of a line as a
\* last one; RecordTTFT on the first round;
\* WriteString(line + "\n"); the token count.  out is what was written to
\* the caller, ttft the rounds in which RecordTTFT was called.
ScanLine(st, line) ==
    IF st.stopped \/ line.kind = "err" \/ TooLong(line)
    THEN [st EXCEPT !.stopped = TRUE]
    ELSE [st EXCEPT
             !.ttft = IF st.firstByte THEN Append(@, Len(st.out) + 1) ELSE @,
             !.firstByte = FALSE,
             !.out = Append(@, [line EXCEPT !.term = "\n"]),
             !.tokens = @ + ContentTokens(line)]

RECURSIVE Pump(_, _)
Pump(st, lines) ==
    IF lines = <<>> THEN st ELSE Pump(ScanLine(st, Head(lines)), Tail(lines))

\* A variant that returns no tokens when the scanner ended with an error.
streamResponse_ZeroOnError(lines) ==
    LET st == Pump(NoLines, lines)
    IN  IF st.stopped THEN [st EXCEPT !.tokens = 0] ELSE st

\* streamResponse: the pump over the body of the upstream response.
streamResponse(lines) == Pump(NoLines, lines)

\* A variant that rounds the estimate up.
InputTokens_RoundUp(bodyLen) == (bodyLen + 3) \div 4

\* inputTokens := len(bodyBytes) / 4
InputTokens(bodyLen) == bodyLen \div 4

\* outputTokens: streamResponse(...) when chatReq.Stream, else len(body) / 4.
OutputTokens(stream, lines) ==
    IF stream THEN streamResponse(lines).tokens
    ELSE BodyBytes(Received(lines)) \div 4

\* The body written to the caller: what streamResponse wrote, or
\* c.Writer.Write(body) of the body read with ioutil.ReadAll, whose error
\* is dropped.
ForwardBody(stream, lines) ==
    IF stream THEN streamResponse(lines).out ELSE Received(lines)

\* gin's Context.Header(key, value): Writer.Header().Set(key, value), and
\* Del(key) for an empty value.
GinHeader(w, k, v) == IF v = "" THEN HeaderDel(w, k) ELSE HeaderSet(w, k, v)

RECURSIVE HeaderValues(_, _, _)
\* for _, v := range vv { c.Header(k, v) }
HeaderValues(w, k, vv) ==
    IF vv = <<>> THEN w ELSE HeaderValues(GinHeader(w, k, Head(vv)), k, Tail(vv))

RECURSIVE ForwardHeader(_, _, _)
\* for k, vv := range resp.Header { ... } over the names not yet visited.
ForwardHeader(w, header, names) ==
    IF names = {} THEN w
    ELSE LET k == CHOOSE x \in names : TRUE
         IN  ForwardHeader(HeaderValues(w, k, header[k]), header, names \ {k})

\* The upstream response as the caller receives it.
Passthrough(up) ==
    [status |-> up.status, error |-> "", limit |-> -1, retryAfter |-> "",
     by |-> "upstream", text |-> "", lines |-> up.lines,
     header |-> ForwardHeader(<<>>, up.header, DOMAIN up.header)]

NoTask == [state |-> "none", tid |-> "", mid |-> "", in |-> 0, out |-> 0,
           start |-> -1, i |-> 0]

\* A variant of the handler that starts the goroutine before it looks at the
\* status of the response.
Respond_BillsBadGateway(r) ==
    /\ pc[r] = "respond"
    /\ LET l == loop[r]
       IN  IF l.lastErr # ""
           THEN /\ Reply(r, ErrorJSON(502, "Upstream provider failed"))
                /\ UNCHANGED <<wg, task, hist>>
           ELSE /\ IF l.resp[1].status >= 500
                   THEN Reply(r, ErrorJSON(502, "Upstream provider error"))
                   ELSE Reply(r, [Passthrough(l.resp[1]) EXCEPT !.lines =
                              ForwardBody(inp[r].body.stream, l.resp[1].lines)])
                \* h.wg.Add(1); go func(tid, mid, in, out) {...}
                /\ wg' = wg + 1
                /\ task' = [task EXCEPT ![r] =
                       [state |-> "tpm", tid |-> tenantCtx[r][1].tenant_id,
                        mid |-> inp[r].body.model,
                        in |-> InputTokens(l.bodyLen),
                        out |-> OutputTokens(inp[r].body.stream, l.resp[1].lines),
                        start |-> l.start, i |-> 0]]
                /\ hist' = [hist EXCEPT
                       ![r].scheduled = @ + 1,
                       ![r].ttft = IF inp[r].body.stream
                                   THEN streamResponse(l.resp[1].lines).ttft
                                   ELSE <<>>]
    /\ UNCHANGED <<now, ticks, directory, cache, rl, inp, main, reqCtx, mu, frame, tenantCtx, loop, cb,
                   usage>>

Respond(r) ==
    /\ pc[r] = "respond"
    /\ LET l == loop[r]
       IN  IF l.lastErr # ""
           THEN /\ Reply(r, ErrorJSON(502, "Upstream provider failed"))
                /\ UNCHANGED <<wg, task, hist>>
           ELSE IF l.resp # <<>> /\ l.resp[1].status >= 500
           THEN /\ Reply(r, ErrorJSON(502, "Upstream provider error"))
                /\ UNCHANGED <<wg, task, hist>>
           ELSE /\ Reply(r, [Passthrough(l.resp[1]) EXCEPT !.lines =
                              ForwardBody(inp[r].body.stream, l.resp[1].lines)])
                \* h.wg.Add(1); go func(tid, mid, in, out) {...}
                /\ wg' = wg + 1
                /\ task' = [task EXCEPT ![r] =
                       [state |-> "tpm", tid |-> tenantCtx[r][1].tenant_id,
                        mid |-> inp[r].body.model,
                        in |-> InputTokens(l.bodyLen),
                        out |-> OutputTokens(inp[r].body.stream, l.resp[1].lines),
                        start |-> l.start, i |-> 0]]
                /\ hist' = [hist EXCEPT
                       ![r].scheduled = @ + 1,
                       ![r].ttft = IF inp[r].body.stream
                                   THEN streamResponse(l.resp[1].lines).ttft
                                   ELSE <<>>]
    /\ UNCHANGED <<now, ticks, directory, cache, rl, inp, main, reqCtx, mu, frame, tenantCtx, loop, cb,
                   usage>>

\* A variant of the goroutine that calls the stores with the context of the
\* request.
TaskContext_Request(r) == RequestContext(r)

\* The context the goroutine passes to IncrementTPM and to LogUsage:
\* context.Background().
TaskContext(r) == Background

\* The goroutine: h.rlStore.IncrementTPM(context.Background(), tid, in+out);
\* an error is logged and the goroutine goes on.
TaskIncrementTPM(r) ==
    /\ task[r].state = "tpm"
    /\ rl' = IncrementTPM(task[r].tid, task[r].in + task[r].out,
                          RoundTrip(TaskContext(r), inp[r].env.incr),
                          RoundTrip(TaskContext(r), inp[r].env.expire)).rl
    /\ task' = [task EXCEPT ![r].state = "log"]
    /\ hist' = [hist EXCEPT
           ![r].incrBucket = IF RoundTrip(TaskContext(r), inp[r].env.incr)
                             THEN Bucket(now) ELSE -1,
           ![r].tpmCalls = @ + 1]
    /\ UNCHANGED <<now, ticks, directory, cache, inp, main, reqCtx, mu, frame, pc, tenantCtx, resp,
                   loop, cb, wg, usage>>

\* A variant that builds a record, with an id of its own, for every call of
\* the sink.
UsageRecord_PerAttempt(r) ==
    [tenant_id |-> task[r].tid, timestamp |-> task[r].start,
     request_id |-> r + NumReq * task[r].i,
     model_id |-> task[r].mid, input_tokens |-> task[r].in,
     output_tokens |-> task[r].out]

\* store.UsageRecord built by the goroutine; uuid.New() is the request's own.
UsageRecord(r) ==
    [tenant_id |-> task[r].tid, timestamp |-> task[r].start, request_id |-> r,
     model_id |-> task[r].mid, input_tokens |-> task[r].in,
     output_tokens |-> task[r].out]

\* h.usageStore.LogUsage in round i of the goroutine: whether it succeeds.
LogUsage(r, i) == RoundTrip(TaskContext(r), i >= inp[r].env.sinkFails)

\* One round of "for i := 0; i < 3; i++ { LogUsage ... }", and the deferred
\* h.wg.Done() once the loop is left.
TaskLogUsage(r) ==
    /\ task[r].state = "log"
    /\ IF LogUsage(r, task[r].i)
       THEN /\ usage' = usage \cup {UsageRecord(r)}
            /\ task' = [task EXCEPT ![r].state = "done"]
            /\ wg' = wg - 1
            /\ hist' = [hist EXCEPT
                   ![r].logged = @ + 1,
                   ![r].sinkCalls = Append(@, UsageRecord(r))]
       ELSE /\ usage' = usage
            /\ task' = [task EXCEPT
                   ![r].i = @ + 1,
                   ![r].state = IF task[r].i + 1 < 3 THEN "log" ELSE "done"]
            /\ wg' = IF task[r].i + 1 < 3 THEN wg ELSE wg - 1
            /\ hist' = [hist EXCEPT
                   ![r].sinkCalls = Append(@, UsageRecord(r))]
    /\ UNCHANGED <<now, ticks, directory, cache, rl, inp, main, reqCtx, mu, frame, pc, tenantCtx, resp,
                   loop, cb>>

(***************************************************************************)
(* The other routes of main.                                               *)
(***************************************************************************)
\* c.JSON(200, gin.H{"status": "ok"})
HealthJSON ==
    [status |-> 200, error |-> "", limit |-> -1, retryAfter |-> "",
     by |-> "gateway", text |-> "{\"status\":\"ok\"}", lines |-> <<>>,
     header |-> <<>>]

\* promhttp.Handler(): the metrics exposition.
MetricsText ==
    [status |-> 200, error |-> "", limit |-> -1, retryAfter |-> "",
     by |-> "gateway", text |-> "# metrics", lines |-> <<>>, header |-> <<>>]

\* The handlers registered by r.GET("/health", ...) and r.GET("/metrics", ...).
GetRoute(r) ==
    /\ pc[r] \in {"health", "promhttp"}
    /\ Reply(r, IF pc[r] = "health" THEN HealthJSON ELSE MetricsText)
    /\ hist' = [hist EXCEPT ![r].handlerRan = TRUE]
    /\ UNCHANGED <<now, ticks, directory, cache, rl, inp, main, reqCtx, mu, frame, tenantCtx, handlerVars>>

(***************************************************************************)
(* The environment: the clock, Redis expiring keys, the tenant table.      *)
(***************************************************************************)
\* Redis drops every key whose TTL has elapsed.
Expired(store, t) ==
    {k \in DOMAIN store : store[k].expiresAt # -1 /\ store[k].expiresAt <= t}

Tick(d) ==
    /\ ticks < MaxTicks
    /\ now' = now + d
    /\ ticks' = ticks + 1
    /\ rl' = [k \in DOMAIN rl \ Expired(rl, now + d) |-> rl[k]]
    /\ UNCHANGED <<directory, cache, inp, main, reqCtx, mu, frame, pc, tenantCtx, resp, hist, handlerVars>>

\* Some request is being served or some goroutine has not finished.
Busy == \E r \in Req : pc[r] # "done" \/ task[r].state \in {"tpm", "log"}

\* An operator sets is_active = false on a row of the tenant table.
DeactivateTenant(k) ==
    /\ k \in DOMAIN directory
    /\ directory[k].is_active
    /\ directory' = [directory EXCEPT ![k].is_active = FALSE]
    /\ UNCHANGED <<now, ticks, cache, rl, inp, main, reqCtx, mu, frame, pc, tenantCtx, resp, hist,
                   handlerVars>>

(***************************************************************************)
(* The client side of a connection, and main from the interrupt signal on. *)
(***************************************************************************)
\* The client of r closes its connection: net/http cancels the context of
\* the request.
Disconnect(r) ==
    /\ reqCtx[r] = "live"
    /\ reqCtx' = [reqCtx EXCEPT ![r] = "canceled"]
    /\ hist' = [hist EXCEPT
           ![r].disconnect = <<task[r].state>>,
           ![r].cancelAt = <<[pc |-> pc[r], calls |-> loop[r].calls,
                              slept |-> Len(loop[r].slept)]>>]
    /\ UNCHANGED <<now, ticks, directory, cache, rl, inp, mu, frame, pc, tenantCtx, resp,
                   main, handlerVars>>

\* context.WithTimeout(context.Background(), 10*time.Second)
ShutdownTimeout == 10

\* The server has begun to run the handler chain of r.
Started(r) == pc[r] # FirstHandler(inp[r].route)

\* The requests whose handler chain is running.
InFlight == {r \in Req : Started(r) /\ pc[r] # "done"}

\* ctx.Done() of main's ctx is closed: its deadline has passed.
CtxDone(m) == m.deadline # -1 /\ now >= m.deadline

\* <-quit, then ctx is made.  main gives ctx a deadline 10 s away;
\* TestHandler_Shutdown calls Shutdown with context.Background().
Quit(bounded) ==
    /\ main.pc = "serving"
    /\ main' = [main EXCEPT
           !.pc = "srv.Shutdown",
           !.deadline = IF bounded THEN now + ShutdownTimeout ELSE -1]
    /\ UNCHANGED <<now, ticks, directory, cache, rl, inp, mu, frame, pc, tenantCtx, resp,
                   hist, reqCtx, handlerVars>>

\* srv.Shutdown(ctx) returns: nil once no handler is running, ctx.Err() once
\* ctx is done.  main logs the error and goes on to proxyHandler.Shutdown;
\* pending are the goroutines outstanding at that call.
SrvShutdown(timedOut) ==
    /\ main.pc = "srv.Shutdown"
    /\ IF timedOut THEN CtxDone(main) ELSE InFlight = {}
    /\ main' = [main EXCEPT
           !.pc = "Handler.Shutdown",
           !.srvErr = IF timedOut THEN "context deadline exceeded" ELSE "",
           !.pending = {r \in Req : task[r].state \in {"tpm", "log"}}]
    /\ UNCHANGED <<now, ticks, directory, cache, rl, inp, mu, frame, pc, tenantCtx, resp,
                   hist, reqCtx, handlerVars>>

\* A variant of WaitGroup.Wait that returns at once.
WaitReturns_Always(counter) == TRUE

\* h.wg.Wait() returns when the counter is zero.
WaitReturns(counter) == counter = 0

\* go func() { h.wg.Wait(); close(done) }() of Handler.Shutdown.
ShutdownWait ==
    /\ main.pc = "Handler.Shutdown"
    /\ ~main.done
    /\ WaitReturns(wg)
    /\ main' = [main EXCEPT !.done = TRUE]
    /\ UNCHANGED <<now, ticks, directory, cache, rl, inp, mu, frame, pc, tenantCtx, resp,
                   hist, reqCtx, handlerVars>>

\* A variant of the select that has a default case.
Ready_Default(case, m) == TRUE

\* Whether a case of "select { case <-done: ... case <-ctx.Done(): ... }"
\* can proceed.
Ready(case, m) == IF case = "done" THEN m.done ELSE CtxDone(m)

\* The select of Handler.Shutdown takes one of its ready cases and Shutdown
\* returns nil or ctx.Err(); main logs the error and returns, which ends the
\* process with all its goroutines.
Shutdown(case) ==
    /\ main.pc = "Handler.Shutdown"
    /\ Ready(case, main)
    /\ main' = [main EXCEPT
           !.pc = "exited",
           !.err = IF case = "done" THEN "" ELSE "context deadline exceeded"]
    /\ UNCHANGED <<now, ticks, directory, cache, rl, inp, mu, frame, pc, tenantCtx, resp,
                   hist, reqCtx, handlerVars>>

(***************************************************************************)
(* Requests, initial state, next-state relation.                           *)
(***************************************************************************)
\* An HTTP request and, in upstream, what the upstreams answer to the
\* successive attempts made for it.
\* The collaborators as one request meets them: whether GetItem on the
\* tenant table, INCR on the RPM key, EXPIRE, GET on the TPM key, GetItem on
\* the model table and INCRBY on the TPM key succeed, and how many of the
\* LogUsage calls made for the request fail.
Env(tenantDb, rpm, expire, tpm, catalog, incr, sinkFails) ==
    [tenantDb |-> tenantDb, rpm |-> rpm, expire |-> expire, tpm |-> tpm,
     catalog |-> catalog, incr |-> incr, sinkFails |-> sinkFails]

Healthy == Env(TRUE, TRUE, TRUE, TRUE, TRUE, TRUE, 0)

Request(route, authorization, body, retryMaxHdr, backoffHdr, upstream, env) ==
    [route |-> route, authorization |-> authorization, body |-> body,
     retryMaxHdr |-> retryMaxHdr, backoffHdr |-> backoffHdr,
     header |-> ("Content-Type" :> <<"application/json">>),
     upstream |-> upstream, env |-> env]

Bearer(key) == <<"Bearer", SP, key>>

\* {"model":"m1","messages":[{"role":"user","content":"hi"}]} and the like.
Chat(size, model) == Body(size, FALSE, TRUE, 1, model, FALSE)

\* A chat completion that is tried once and answered 200 with an empty body.
Plain(key, size, env) ==
    Request("/v1/chat/completions", Bearer(key), Chat(size, "m1"), <<"0">>, <<>>,
            <<Response(200, <<>>)>>, env)

\* The state after main has built the router and NewHandler the handler.
InitWith(table, requests) ==
    /\ now = 0
    /\ ticks = 0
    /\ directory = table
    /\ cache = <<>>
    /\ rl = <<>>
    /\ \E f \in [Req -> 1..Len(requests)] :
          \* the callers send different requests of the list; they are
          \* interchangeable, so one order of each choice
          /\ \A q \in Req : q + 1 \in Req => f[q] < f[q + 1]
          /\ inp = [q \in Req |-> requests[f[q]]]
    /\ pc = [r \in Req |-> FirstHandler(inp[r].route)]
    /\ tenantCtx = [r \in Req |-> <<>>]
    /\ resp = [r \in Req |-> <<>>]
    /\ hist = [r \in Req |-> NoHist]
    /\ loop = [r \in Req |-> NoLoop]
    /\ cb = CBEnter("closed", 0)
    /\ wg = 0
    /\ task = [r \in Req |-> NoTask]
    /\ usage = {}
    /\ main = Serving
    /\ reqCtx = [r \in Req |-> "live"]
    /\ mu = 0
    /\ frame = [r \in Req |-> <<>>]

\* The steps of a request to /v1/chat/completions and of its goroutine.
Pipeline(r) ==
    \/ AuthMiddleware(r)
    \/ RateLimitMiddleware(r)
    \/ RateLimitMiddleware_TPM(r)
    \/ CreateCompletion(r)
    \/ Attempt(r)
    \/ Respond(r)
    \/ TaskIncrementTPM(r)
    \/ TaskLogUsage(r)

\* A chat completion with the given body, tried once upstream.
WithBody(key, body, env) ==
    Request("/v1/chat/completions", Bearer(key), body, <<"0">>, <<>>,
            <<Response(200, <<>>)>>, env)

CatalogDown == Env(TRUE, TRUE, TRUE, TRUE, FALSE, TRUE, 0)

\* Workload of the admission claims: chat completions of 15 and of 16 input
\* tokens by tenant t1 (2 requests, 15 tokens a minute) and two by tenant t2
\* (1 request a minute) for a model the catalog does not hold, the counter
\* store healthy.
AdmissionRequests ==
    << Plain("k1", 60, Healthy), Plain("k1", 64, Healthy),
       WithBody("k2", Body(60, FALSE, TRUE, 1, "m3", FALSE), Healthy),
       WithBody("k2", Body(60, FALSE, TRUE, 1, "m3", FALSE), Healthy) >>

\* The same with a counter store that fails on INCR or on GET.
StoreDownRequests ==
    << Plain("k1", 60, Healthy),
       Plain("k1", 60, Env(TRUE, FALSE, TRUE, TRUE, TRUE, TRUE, 0)),
       Plain("k1", 60, Env(TRUE, TRUE, TRUE, FALSE, TRUE, TRUE, 0)) >>

\* Workload of the auth claims: chat completions, of a body the handler
\* turns down, with the key of an active tenant, of an inactive one and of
\* none, with a failing tenant table, without a header and with malformed
\* ones, and GETs of the other routes.
WithHeader(authorization, env) ==
    Request("/v1/chat/completions", authorization,
            Body(60, FALSE, FALSE, 1, "m1", FALSE), <<"0">>, <<>>,
            <<Response(200, <<>>)>>, env)

Get(route, authorization) ==
    Request(route, authorization, Chat(0, "m1"), <<>>, <<>>,
            <<Response(200, <<>>)>>, Healthy)

AuthRequests ==
    << WithHeader(Bearer("k1"), Healthy),
       WithHeader(Bearer("k1"), Healthy),
       WithHeader(Bearer("k3"), Healthy),
       WithHeader(Bearer("k9"), Healthy),
       WithHeader(Bearer("k1"), Env(FALSE, TRUE, TRUE, TRUE, TRUE, TRUE, 0)),
       WithHeader(<<>>, Healthy),
       WithHeader(<<"Basic", SP, "k1">>, Healthy),
       WithHeader(<<"Bearer">>, Healthy),
       WithHeader(<<"Bearer", SP, "k1", SP, "x">>, Healthy),
       WithHeader(<<"Bearer", SP, SP, "k1">>, Healthy),
       Get("/health", <<>>),
       Get("/health", Bearer("k1")),
       Get("/metrics", <<>>) >>

\* The tenant table of the auth claims: an active and an inactive tenant.
AuthTable == [k \in {<<"k1">>, <<"k3">>} |-> TenantTable[k]]

\* Workload of the intake claims: bodies at and above the size limit, broken
\* and unparsable ones, too many messages, models the tenant may not use,
\* models the catalog does not hold or holds without a URL, a failing
\* catalog.
IntakeRequests ==
    << Plain("k1", 60, Healthy),
       Plain("k1", MaxBodyBytes, Healthy),
       Plain("k1", MaxBodyBytes + 1, Healthy),
       WithBody("k1", Body(60, TRUE, TRUE, 1, "m1", FALSE), Healthy),
       WithBody("k1", Body(60, FALSE, FALSE, 1, "m1", FALSE), Healthy),
       WithBody("k1", Body(60, FALSE, TRUE, MaxMessages + 1, "m1", FALSE), Healthy),
       WithBody("k1", Body(60, FALSE, TRUE, 1, "m2", FALSE), Healthy),
       WithBody("k1", Body(60, FALSE, TRUE, 1, "m3", FALSE), Healthy),
       WithBody("k1", Body(60, FALSE, TRUE, 1, "m2", FALSE), CatalogDown),
       WithBody("k1", Body(60, FALSE, TRUE, 1, "m1", FALSE), CatalogDown),
       WithBody("k2", Body(60, FALSE, TRUE, 1, "m3", FALSE), Healthy),
       WithBody("k2", Body(60, FALSE, TRUE, 1, "m2", FALSE), Healthy) >>

\* A chat completion of 60 bytes with retry override headers and a script of
\* upstream outcomes; the last outcome of the script repeats.
Retried(key, model, retryMaxHdr, backoffHdr, upstream) ==
    Request("/v1/chat/completions", Bearer(key), Chat(60, model), retryMaxHdr,
            backoffHdr, upstream, Healthy)

\* The same with further header fields of the caller.
RetriedWith(key, model, retryMaxHdr, backoffHdr, upstream, header) ==
    [Retried(key, model, retryMaxHdr, backoffHdr, upstream)
        EXCEPT !.header = header @@ @]

\* Response header fields of an upstream: a name sent twice, a name sent
\* once, a name sent with an empty value.
UpstreamHeader ==
    ("Set-Cookie" :> <<"a=1", "b=2">>)
 @@ ("Content-Type" :> <<"application/json">>)
 @@ ("X-Trace" :> <<"">>)

\* Workload of the retry claims: upstreams that fail on the transport, with
\* 5xx and with 429, that recover on a later attempt, answer 4xx, keep
\* failing until the breaker opens; override headers that are absent, in
\* range, out of range and no numbers; a model with a single URL and no
\* credential.
RetryRequests ==
    << Retried("k1", "m1", <<>>, <<>>, <<TransportError>>),
       Retried("k1", "m1", <<"0">>, <<>>, <<Response(500, <<>>)>>),
       Retried("k1", "m1", <<"1", "1">>, <<"a">>, <<Response(503, <<>>)>>),
       Retried("k1", "m1", <<"1">>, <<>>,
               <<Response(429, <<>>), Response(200, <<>>)>>),
       Retried("k1", "m1", <<"x">>, <<"+", "7">>,
               <<Response(429, <<>>), TransportError, Response(200, <<>>)>>),
       Retried("k1", "m1", <<"1">>, <<"5", "0">>,
               <<Response(500, <<>>), Response(429, <<>>)>>),
       Retried("k1", "m1", <<>>, <<"5", "0">>,
               <<Response(500, <<>>), Response(404, <<Blank>>)>>),
       Retried("k1", "m1", <<"1", "0">>, <<"0">>, <<TransportError>>),
       RetriedWith("k2", "m4", <<"2">>, <<"-", "5">>,
                   <<TransportError, ResponseWith(200, <<>>, UpstreamHeader)>>,
                   ("X-Request-Id" :> <<"r-1">>) @@ ("Accept" :> <<"a/b", "c/d">>)) >>

\* A chat completion of 60 bytes, tried once, whose upstream answers 200
\* with the given body.
Answered200(stream, lines) ==
    Request("/v1/chat/completions", Bearer("k1"),
            Body(60, FALSE, TRUE, 1, "m1", stream), <<"0">>, <<>>,
            <<Response(200, lines)>>, Healthy)

\* Workload of the response-body claims: streamed and buffered responses
\* with events, blank lines, [DONE], payloads that do not parse or hold no
\* choice, lines that are no data lines, "\r\n" terminators, a last line
\* without terminator, lines of 64 KiB and more, an empty body.
StreamRequests ==
    << Answered200(TRUE, <<Data(7), Blank, Data(6), Blank, Done, Blank>>),
       Answered200(TRUE, <<Line("data", 8, "\r\n"), Line("blank", 0, "\r\n")>>),
       Answered200(TRUE, <<Line("other", 10, "\n"), Line("bad", 5, "\n"),
                           Line("empty", 0, "\n"), Data(4),
                           Line("data", 9, "")>>),
       Answered200(TRUE, <<Data(4), Line("other", MaxScanTokenSize, "\n"),
                           Data(8)>>),
       Answered200(TRUE, <<Line("other", MaxScanTokenSize - 1, "\n"), Data(8)>>),
       Answered200(TRUE, <<Data(MaxScanTokenSize), Data(8)>>),
       Answered200(TRUE, <<>>),
       Answered200(FALSE, <<Line("data", 8, "\r\n"),
                            Line("other", MaxScanTokenSize, "\n"),
                            Line("data", 9, "")>>),
       Answered200(FALSE, <<Data(7), Blank, Data(6), Blank, Done, Blank>>) >>

\* A chat completion of the given size, tried once, answered by the upstream
\* with the given status and body, for which the first sinkFails calls of
\* LogUsage fail.
Billed(size, stream, status, lines, sinkFails) ==
    Request("/v1/chat/completions", Bearer("k1"),
            Body(size, FALSE, TRUE, 1, "m1", stream), <<"0">>, <<>>,
            <<Response(status, lines)>>,
            Env(TRUE, TRUE, TRUE, TRUE, TRUE, TRUE, sinkFails))

\* Workload of the usage-record claim: buffered and streamed responses with
\* 200, 201 and 500, bodies whose length is no multiple of 4, a sink that
\* works and one that fails on every call.
UsageRequests ==
    << Billed(62, FALSE, 200, <<Data(7)>>, 0),
       Billed(7, TRUE, 201, <<Data(9), Blank, Done>>, 0),
       Billed(62, TRUE, 200, <<Data(9)>>, 3),
       Billed(62, FALSE, 500, <<Blank>>, 0) >>

\* Workload of the breaker claim: upstreams that answer 500 to every one of
\* 11 and of 10 calls without pause, one that fails on the transport every
\* time, one that answers 200.
BreakerRequests ==
    << Retried("k1", "m1", <<"1", "0">>, <<"0">>, <<Response(500, <<>>)>>),
       Retried("k1", "m1", <<"9">>, <<"0">>, <<Response(500, <<>>)>>),
       Retried("k1", "m1", <<"1", "0">>, <<"0">>, <<TransportError>>),
       Retried("k1", "m1", <<"0">>, <<>>, <<Response(200, <<>>)>>) >>

\* A tenant table with a row written without limits and without a list of
\* allowed models, as PutItem by anything but the admin handler leaves it.
UnsetTable ==
    TenantTable @@ (<<"k4">> :> Tenant("t4", 0, 0, <<>>, TRUE))

\* Workload of the defaults claim: chat completions by the tenant of that
\* row for models the catalog holds and does not hold, and by tenant t1.
DefaultsRequests ==
    << Plain("k1", 60, Healthy),
       Plain("k4", 60, Healthy),
       Plain("k4", 64, Healthy),
       WithBody("k4", Body(60, FALSE, TRUE, 1, "m3", FALSE), Healthy),
       WithBody("k4", Body(60, FALSE, TRUE, 1, "m4", TRUE), Healthy) >>

\* Workload of the shutdown claims: requests that are answered 200 and
\* leave a goroutine behind that needs one, two or three calls of the sink.
ShutdownRequests ==
    << Plain("k1", 60, Healthy),
       Billed(62, FALSE, 200, <<Data(7)>>, 1),
       Billed(62, TRUE, 200, <<Data(9)>>, 3) >>

\* Workload of the disconnect claim: requests answered 200 at the first and
\* at the second call, with a sink that works and one that fails once.
DisconnectRequests ==
    << Plain("k1", 60, Healthy),
       Billed(62, TRUE, 200, <<Data(9), Done>>, 1),
       Retried("k1", "m1", <<"1">>, <<"0">>,
               <<Response(500, <<>>), Response(200, <<Data(7)>>)>>) >>

\* Workload of the bookkeeping claim: requests answered 200 whose goroutine
\* meets a counter store that fails on INCRBY, a sink that fails once, a
\* sink that fails every time, and healthy ones; and one answered 502.
BookkeepingRequests ==
    << Billed(62, FALSE, 200, <<Data(7)>>, 0),
       Request("/v1/chat/completions", Bearer("k1"),
               Body(62, FALSE, TRUE, 1, "m1", TRUE), <<"0">>, <<>>,
               <<Response(200, <<Data(9)>>)>>,
               Env(TRUE, TRUE, TRUE, TRUE, TRUE, FALSE, 1)),
       Billed(7, FALSE, 200, <<Data(7)>>, 3),
       Billed(62, FALSE, 500, <<Blank>>, 0) >>

\* Workload of the read-error claim: streamed responses whose body fails
\* after whole lines, within a line, after a whole event that lacks its
\* terminator and before the first byte; a buffered one that fails; a
\* streamed one that does not fail.
StreamCutRequests ==
    << Answered200(TRUE, <<Data(8), Blank, Data(5), ReadError, Data(12)>>),
       Answered200(TRUE, <<Data(8), Line("bad", 20, ""), ReadError>>),
       Answered200(TRUE, <<Line("data", 9, ""), ReadError, Done>>),
       Answered200(TRUE, <<ReadError, Data(4)>>),
       Answered200(FALSE, <<Data(7), ReadError, Data(7)>>),
       Answered200(TRUE, <<Data(4), Done>>) >>

\* Workload of the tenant-cache claim: lookups of the same active key, of an
\* inactive and an unknown one, and one whose GetItem fails.
CacheRequests ==
    << WithHeader(Bearer("k1"), Healthy),
       WithHeader(Bearer("k1"), Healthy),
       WithHeader(Bearer("k3"), Healthy),
       WithHeader(Bearer("k9"), Healthy),
       WithHeader(Bearer("k1"), Env(FALSE, TRUE, TRUE, TRUE, TRUE, TRUE, 0)) >>

\* Workload of the bookkeeping-scope claim: upstream answers 200, 302, 404
\* and, until the retry budget is spent, 429, which are passed through; and
\* requests the gateway answers itself: unknown key (401), a tenant over its
\* RPM limit (429), unparsable body (400), model not allowed (403), model
\* not in the catalog (404), body over the limit (413), failing catalog
\* (500), upstream failing on the transport and with 500 (502).
PassthroughRequests ==
    << Billed(60, FALSE, 200, <<Data(7)>>, 0),
       Billed(60, FALSE, 302, <<>>, 0),
       Billed(60, FALSE, 404, <<Blank>>, 1),
       Retried("k1", "m1", <<"1">>, <<"0">>, <<Response(429, <<Blank>>)>>),
       WithHeader(Bearer("k9"), Healthy),
       Plain("k2", 60, Healthy),
       Plain("k2", 60, Healthy),
       WithBody("k1", Body(60, FALSE, FALSE, 1, "m1", FALSE), Healthy),
       WithBody("k1", Body(60, FALSE, TRUE, 1, "m2", FALSE), Healthy),
       WithBody("k2", Body(60, FALSE, TRUE, 1, "m3", FALSE), Healthy),
       Plain("k1", MaxBodyBytes + 1, Healthy),
       Plain("k1", 60, CatalogDown),
       Retried("k1", "m1", <<"0">>, <<>>, <<TransportError>>),
       Billed(60, FALSE, 500, <<Blank>>, 0) >>

\* Workload of the cancellation claim: an upstream that answers 500 to each
\* of 11 calls made without pause, one that answers 503 and then 200 with
\* the default backoff between the calls, and a request of another tenant.
CancelRequests ==
    << Retried("k1", "m1", <<"1", "0">>, <<"0">>, <<Response(500, <<>>)>>),
       Retried("k1", "m1", <<"2">>, <<>>,
               <<Response(503, <<>>), Response(200, <<Data(7)>>)>>),
       Plain("k2", 60, Healthy) >>

NextAdmission ==
    \/ \E r \in Req : Pipeline(r)
    \/ Busy /\ Tick(BucketSeconds)

SpecAdmission ==
    InitWith(TenantTable, AdmissionRequests) /\ [][NextAdmission]_vars

SpecStoreDown ==
    InitWith(TenantTable, StoreDownRequests) /\ [][NextAdmission]_vars

\* The auth claims run against a tenant table whose rows an operator may
\* deactivate, the clock advancing by the lifetime of a cache entry.  No
\* request of the workload gets past the intake of the handler.
NextAuth ==
    \/ \E r \in Req :
          \/ AuthMiddleware(r)
          \/ RateLimitMiddleware(r)
          \/ RateLimitMiddleware_TPM(r)
          \/ CreateCompletion(r)
          \/ GetRoute(r)
    \/ \E k \in ApiKeys : DeactivateTenant(k)
    \/ Busy /\ Tick(CacheTTL)

SpecAuth == InitWith(AuthTable, AuthRequests) /\ [][NextAuth]_vars

NextIntake == \E r \in Req : Pipeline(r)

SpecIntake == InitWith(TenantTable, IntakeRequests) /\ [][NextIntake]_vars

\* Runs of the response-body workload.
SpecStream == InitWith(TenantTable, StreamRequests) /\ [][NextIntake]_vars

\* Runs of the retry workload; the clock stands still.
SpecRetry == InitWith(TenantTable, RetryRequests) /\ [][NextIntake]_vars

\* Runs of the breaker workload; the clock stands still, so all calls fall
\* into one interval of the closed breaker.
SpecBreaker == InitWith(TenantTable, BreakerRequests) /\ [][NextIntake]_vars

\* Runs of the defaults workload against the table with the unset row.
SpecDefaults == InitWith(UnsetTable, DefaultsRequests) /\ [][NextIntake]_vars

\* The process from start to exit.  Once main has left <-quit the listener
\* is closed and no further request is begun; once main has returned
\* nothing runs any more.  The clock advances by the shutdown timeout while
\* main waits on a ctx with a deadline.
NextShutdown ==
    \/ \E r \in Req :
          /\ main.pc # "exited"
          /\ main.pc = "serving" \/ Started(r)
          /\ Pipeline(r)
    \/ \E bounded \in BOOLEAN : Quit(bounded)
    \/ \E timedOut \in BOOLEAN : SrvShutdown(timedOut)
    \/ ShutdownWait
    \/ \E case \in {"done", "ctx"} : Shutdown(case)
    \/ /\ main.pc \in {"srv.Shutdown", "Handler.Shutdown"}
       /\ main.deadline # -1
       /\ Tick(ShutdownTimeout)

SpecShutdown == InitWith(TenantTable, ShutdownRequests) /\ [][NextShutdown]_vars

\* A serving process whose clients may go away at any moment.
NextDisconnect ==
    \/ \E r \in Req : Pipeline(r)
    \/ \E r \in Req : Disconnect(r)

SpecDisconnect ==
    InitWith(TenantTable, DisconnectRequests) /\ [][NextDisconnect]_vars

\* Runs of the cancellation workload: clients go away while their handler is
\* in the retry loop.
SpecCancel == InitWith(TenantTable, CancelRequests) /\ [][NextDisconnect]_vars

\* Runs of the bookkeeping workload.
SpecBookkeeping ==
    InitWith(TenantTable, BookkeepingRequests) /\ [][NextIntake]_vars

\* Runs of the read-error workload.
SpecStreamCut == InitWith(TenantTable, StreamCutRequests) /\ [][NextIntake]_vars

\* Runs of the tenant-cache workload: the lookups run step by step, rows are
\* deactivated, and the clock advances by the cache TTL.  The requests of the
\* workload are answered by CreateCompletion before any upstream attempt.
NextCache ==
    \/ \E r \in Req :
          \/ GetTenant_CheckCache(r)
          \/ GetTenant_GetItem(r)
          \/ GetTenant_Lock(r)
          \/ GetTenant_UpdateCache(r)
          \/ RateLimitMiddleware(r)
          \/ RateLimitMiddleware_TPM(r)
          \/ CreateCompletion(r)
    \/ \E k \in ApiKeys : DeactivateTenant(k)
    \/ Busy /\ Tick(CacheTTL)

SpecCache == InitWith(AuthTable, CacheRequests) /\ [][NextCache]_vars

\* Runs of the bookkeeping-scope workload; the clock stands still.
SpecPassthrough == InitWith(TenantTable, PassthroughRequests) /\ [][NextIntake]_vars

\* Runs of the usage-record workload in a process that keeps running: as
\* long as a handler or a goroutine can take a step, the server and the Go
\* scheduler let one of them take it.
SpecUsage ==
    /\ InitWith(TenantTable, UsageRequests)
    /\ [][NextIntake]_vars
    /\ WF_vars(NextIntake)

(***************************************************************************)
(* Admission: RPM and TPM limits, store failures.                          *)
(***************************************************************************)
\* The request went on from the RPM comparison to the TPM read.
PassedRPM(r) ==
    hist[r].rpmVal # -1
    /\ (pc[r] = "RateLimitMiddleware_TPM" \/ hist[r].tpmReads > 0)

\* Total tokens (input + output) of the requests of S, as their goroutines
\* add them.
RECURSIVE Tokens(_)
Tokens(S) ==
    IF S = {} THEN 0
    ELSE LET q == CHOOSE x \in S : TRUE
         IN  task[q].in + task[q].out + Tokens(S \ {q})

RPM429(r) ==
    <<RateLimitJSON("Rate limit exceeded (RPM)", tenantCtx[r][1].rpm_limit)>>

TPM429(r) ==
    <<RateLimitJSON("Rate limit exceeded (TPM)", tenantCtx[r][1].tpm_limit)>>

\* C1: under every interleaving a request goes on from the RPM step only if
\* the value its own IncrementRPM returned is > 0 and <= the tenant's
\* rpm_limit, the values returned within one (tenant, minute bucket) are
\* pairwise different, and so at most rpm_limit requests of a tenant pass the
\* RPM step in one minute bucket.
C1_RpmPassOnlyWithinLimit ==
    /\ \A r \in Req :
          PassedRPM(r) =>
             hist[r].rpmVal > 0 /\ hist[r].rpmVal <= tenantCtx[r][1].rpm_limit
    /\ \A r, q \in Req :
          /\ r # q /\ hist[r].rpmVal # -1
          /\ q \in Counted(tenantCtx[r][1].tenant_id, hist[r].rpmBucket)
          => hist[r].rpmVal # hist[q].rpmVal
    /\ \A r \in Req :
          hist[r].rpmVal # -1 =>
             Cardinality({q \in Counted(tenantCtx[r][1].tenant_id,
                                        hist[r].rpmBucket) : PassedRPM(q)})
                <= tenantCtx[r][1].rpm_limit

\* Two requests of one tenant have passed the RPM step in the same minute
\* bucket, a third of another bucket or tenant aside.
C1_Witness ==
    \E r, q \in Req :
        /\ r # q /\ PassedRPM(r) /\ PassedRPM(q)
        /\ tenantCtx[r][1].tenant_id = tenantCtx[q][1].tenant_id
        /\ hist[r].rpmBucket = hist[q].rpmBucket
        /\ tenantCtx[r][1].rpm_limit = 2

\* C2: with a healthy counter store, the requests that are among the first
\* rpm_limit of their tenant in a minute bucket go on to the TPM read and,
\* the TPM count not above the limit, are admitted to the handler; the
\* (rpm_limit+1)-th and every later one is answered 429 with Retry-After: 60
\* and {"error":"Rate limit exceeded (RPM)","limit":rpm_limit}, its chain
\* aborted: no TPM read, no handler.
C2_FirstLimitAdmittedRestRejected ==
    \A r \in Req :
        hist[r].rpmPos # -1 =>
            LET tenant == tenantCtx[r][1]
            IN  IF hist[r].rpmPos <= tenant.rpm_limit
                THEN /\ PassedRPM(r)
                     /\ resp[r] # RPM429(r)
                     /\ (hist[r].tpmVal # -1
                         /\ hist[r].tpmVal <= tenant.tpm_limit
                         => hist[r].admitted /\ resp[r] # TPM429(r))
                ELSE /\ resp[r] = RPM429(r)
                     /\ resp[r][1].status = 429
                     /\ resp[r][1].retryAfter = "60"
                     /\ pc[r] = "done"
                     /\ hist[r].tpmReads = 0
                     /\ ~hist[r].admitted
                     /\ ~hist[r].handlerRan

\* The request that brought a tenant's count to its rpm_limit was admitted
\* and reached the handler, the next one of the same minute was turned away.
C2_Witness ==
    \E r, q \in Req :
        /\ hist[r].rpmPos # -1 /\ hist[q].rpmPos # -1
        /\ hist[r].rpmPos = tenantCtx[r][1].rpm_limit
        /\ hist[r].admitted /\ hist[r].handlerRan
        /\ hist[q].rpmPos = tenantCtx[r][1].rpm_limit + 1
        /\ tenantCtx[q] = tenantCtx[r]
        /\ hist[q].rpmBucket = hist[r].rpmBucket
        /\ resp[q] = RPM429(q)

\* C3: a request that passed the RPM step is answered 429 (Retry-After: 60,
\* "Rate limit exceeded (TPM)") exactly when the count GetTPM returned is
\* strictly greater than tpm_limit, and is admitted otherwise; that count is
\* the sum of the tokens of the requests of the tenant whose goroutine had
\* run IncrementTPM in the current bucket when it was read, with nothing of
\* the request itself nor of requests whose goroutine was still to run.
C3_TpmStrictAndStale ==
    \A r \in Req :
        hist[r].tpmVal # -1 =>
            LET tenant == tenantCtx[r][1]
            IN  /\ (resp[r] = TPM429(r)) <=> (hist[r].tpmVal > tenant.tpm_limit)
                /\ hist[r].admitted <=> (hist[r].tpmVal <= tenant.tpm_limit)
                /\ hist[r].admitted => resp[r] = <<>> \/ resp[r][1].status # 429
                /\ ~hist[r].admitted => pc[r] = "done" /\ ~hist[r].handlerRan
                /\ hist[r].tpmVal = Tokens(hist[r].tpmSeen)
                /\ r \notin hist[r].tpmSeen
                /\ hist[r].tpmSeen \cap hist[r].tpmPending = {}

\* One request was admitted on a count equal to the limit; another was
\* admitted while an answered request's tokens, which would have put the
\* count over the limit, were still to be added; a third was rejected.
C3_WitnessEqual ==
    \E r \in Req :
        /\ hist[r].admitted
        /\ hist[r].tpmVal = tenantCtx[r][1].tpm_limit
        /\ hist[r].tpmSeen # {}

C3_Witness ==
    \E r, q \in Req :
        /\ hist[r].admitted
        /\ q \in hist[r].tpmPending
        /\ hist[r].tpmVal + Tokens({q}) > tenantCtx[r][1].tpm_limit
        /\ hist[q].incrBucket = hist[r].rpmBucket

C3_WitnessRejected ==
    \E r \in Req : hist[r].tpmVal # -1 /\ resp[r] = TPM429(r)

\* C4: a request whose IncrementRPM fails is answered 500 and aborted without
\* the TPM counter being read; one whose GetTPM fails is answered 500 and
\* aborted; in both cases the handler does not run and nothing is sent
\* upstream.
C4_FailClosed ==
    \A r \in Req :
        /\ (/\ tenantCtx[r] # <<>>
            /\ ~inp[r].env.rpm
            /\ pc[r] # "RateLimitMiddleware")
           => /\ resp[r] = <<ErrorJSON(500, "Rate limit check failed")>>
              /\ pc[r] = "done"
              /\ hist[r].tpmReads = 0
              /\ ~hist[r].handlerRan
              /\ loop[r].sent = <<>>
        /\ (/\ tenantCtx[r] # <<>>
            /\ inp[r].env.rpm /\ ~inp[r].env.tpm
            /\ PassedRPM(r)
            /\ pc[r] # "RateLimitMiddleware_TPM")
           => /\ resp[r] = <<ErrorJSON(500, "Rate limit check failed (TPM)")>>
              /\ pc[r] = "done"
              /\ hist[r].tpmReads = 1
              /\ ~hist[r].handlerRan
              /\ loop[r].sent = <<>>

\* One request met a failing INCR and another a failing GET.
C4_Witness ==
    \E r, q \in Req :
        /\ hist[r].rpmErr /\ resp[r] # <<>> /\ resp[r][1].status = 500
        /\ hist[q].tpmErr /\ resp[q] # <<>> /\ resp[q][1].status = 500

(***************************************************************************)
(* Authentication.                                                         *)
(***************************************************************************)
\* The header consists of exactly two tokens separated by one space, the
\* first of them Bearer.
TwoTokensBearer(h) ==
    /\ Len(h) >= 2 /\ h[1] = "Bearer" /\ h[2] = SP
    /\ Cardinality({i \in 1..Len(h) : h[i] = SP}) = 1

\* The key such a header presents.
PresentedKey(h) == SubSeq(h, 3, Len(h))

\* Nothing after the auth filter has run for the request.
NothingAfterAuth(r) ==
    /\ hist[r].rpmVal = -1 /\ ~hist[r].rpmErr /\ hist[r].tpmReads = 0
    /\ ~hist[r].handlerRan /\ loop[r].sent = <<>> /\ task[r].state = "none"

\* The auth filter answered 401 {"error": msg} and aborted the chain.
Stopped401(r, msg) ==
    /\ resp[r] = <<ErrorJSON(401, msg)>>
    /\ pc[r] = "done"
    /\ tenantCtx[r] = <<>>
    /\ NothingAfterAuth(r)

\* C5: the auth filter answers 401 {error} and aborts, no tenant attached and
\* nothing later run, when the Authorization header is missing, when it is
\* not exactly "Bearer <key>", when the lookup fails and when it finds no
\* tenant; every other request continues with the tenant registered under
\* the presented key attached.
C5_AuthRejectsOrAttaches ==
    \A r \in Req :
        pc[r] # "AuthMiddleware" =>
            LET h == inp[r].authorization
            IN  IF h = <<>>
                THEN Stopped401(r, "Missing Authorization header")
                ELSE IF ~TwoTokensBearer(h)
                THEN Stopped401(r, "Invalid Authorization header format")
                ELSE LET lookup == hist[r].lookup[1]
                     IN  /\ lookup.key = PresentedKey(h)
                         /\ IF lookup.err # "" \/ lookup.tenant = <<>>
                            THEN Stopped401(r, "Invalid API Key")
                            ELSE /\ tenantCtx[r] # <<>>
                                 /\ lookup.key \in DOMAIN TenantTable
                                 /\ tenantCtx[r][1] =
                                       ApplyDefaults(TenantTable[lookup.key])
                                 /\ resp[r] = <<>> \/ resp[r][1].status # 401
                         /\ (lookup.row = <<>> \/ (lookup.fetched /\ ~inp[r].env.tenantDb)
                             => Stopped401(r, "Invalid API Key"))

\* One request was stopped for its header's format while another went on
\* to the handler with its tenant attached.
C5_Witness ==
    \E r, q \in Req :
        /\ Stopped401(r, "Invalid Authorization header format")
        /\ tenantCtx[q] # <<>> /\ hist[q].handlerRan

C5_WitnessMissing == \E r \in Req : Stopped401(r, "Missing Authorization header")

C5_WitnessLookupError ==
    \E r \in Req : Stopped401(r, "Invalid API Key") /\ hist[r].lookup[1].err # ""
                   /\ hist[r].lookup[1].row # <<>> /\ hist[r].lookup[1].row[1].is_active

C5_WitnessNotFound ==
    \E r \in Req : Stopped401(r, "Invalid API Key") /\ hist[r].lookup[1].row = <<>>

\* The request presented, when the auth filter looked it up, the key of a
\* tenant whose row was inactive.
PresentedInactive(r) ==
    /\ pc[r] # "AuthMiddleware"
    /\ hist[r].lookup # <<>>
    /\ hist[r].lookup[1].row # <<>>
    /\ ~hist[r].lookup[1].row[1].is_active

PresentedUnknown(r) ==
    /\ pc[r] # "AuthMiddleware"
    /\ hist[r].lookup # <<>>
    /\ hist[r].lookup[1].row = <<>>

\* What the auth filter answers to a request like r that presents a key no
\* tenant is registered under.
UnknownKeyAnswer(r) ==
    AuthAnswer(Bearer("nokey"), GetTenant(<<"nokey">>, inp[r].env.tenantDb))

\* r and q differ in nothing but the key presented.
DifferOnlyInKey(r, q) ==
    inp[r] = [inp[q] EXCEPT !.authorization = inp[r].authorization]

\* The caller of r sees what the caller of an unknown key sees, and r went
\* no further than the auth filter.
AnsweredLikeUnknown(r) ==
    /\ resp[r] = UnknownKeyAnswer(r)
    /\ resp[r][1].status = 401
    /\ \A q \in Req : PresentedUnknown(q) /\ DifferOnlyInKey(r, q)
                         => resp[r] = resp[q] /\ tenantCtx[q] = <<>>
    /\ tenantCtx[r] = <<>>
    /\ pc[r] = "done"
    /\ NothingAfterAuth(r)

\* C6 as stated: a request presenting the key of an inactive tenant gets the
\* response (401 and body) of a request presenting an unknown key, with no
\* tenant attached and no handler run.
C6_InactiveLikeUnknown ==
    \A r \in Req : PresentedInactive(r) => AnsweredLikeUnknown(r)

\* C6: the same for the requests whose lookup read the tenant table, that is
\* found no unexpired cache entry for the key.
C6_InactiveLikeUnknownOnFetch ==
    \A r \in Req :
        PresentedInactive(r) /\ hist[r].lookup[1].fetched
            => AnsweredLikeUnknown(r)

\* A tenant served before, then deactivated, is turned away like an unknown
\* one once its cache entry has expired.
C6_Witness ==
    \E r \in Req :
        /\ PresentedInactive(r) /\ hist[r].lookup[1].fetched
        /\ hist[r].lookup[1].key \in DOMAIN cache
        /\ resp[r] = <<ErrorJSON(401, "Invalid API Key")>>

\* C7: a GET of /health (of /metrics) without an Authorization header is
\* answered 200, /health with {"status":"ok"}: neither the auth filter nor
\* the admission filter stands before these routes.
C7_HealthNeedsNoAuth ==
    \A r \in Req :
        /\ inp[r].route \in {"/health", "/metrics"}
        /\ inp[r].authorization = <<>>
        /\ pc[r] = "done"
        => /\ resp[r][1].status = 200
           /\ inp[r].route = "/health" => resp[r] = <<HealthJSON>>
           /\ hist[r].rpmVal = -1

(***************************************************************************)
(* Intake and the order of the pipeline.                                   *)
(***************************************************************************)
\* The gateway's own answer to r has this status and message.
Answered(r, status, msg) == resp[r] = <<ErrorJSON(status, msg)>>

\* Nothing was sent upstream for r and no bookkeeping was started for it.
NoUpstreamNoBookkeeping(r) ==
    /\ loop[r].sent = <<>>
    /\ hist[r].scheduled = 0
    /\ task[r].state = "none"
    /\ hist[r].incrBucket = -1
    /\ \A u \in usage : u.request_id # r

\* C8: a body of at most 10 * 1024 * 1024 bytes passes the size check (is
\* never answered 413 and, when it arrives whole, is handed to the parser);
\* a larger one is answered 413 before it is parsed, with nothing sent
\* upstream and no bookkeeping goroutine started.
C8_BodyLimitInclusive ==
    \A r \in Req :
        hist[r].handlerRan =>
            IF inp[r].body.size <= 10 * 1024 * 1024
            THEN /\ resp[r] = <<>> \/ resp[r][1].status # 413
                 /\ ~inp[r].body.readErr => hist[r].parsed
            ELSE /\ Answered(r, 413, "Request body too large (limit: 10MB)")
                 /\ pc[r] = "done"
                 /\ ~hist[r].parsed
                 /\ hist[r].catalogLookups = 0
                 /\ NoUpstreamNoBookkeeping(r)

\* A body of exactly 10 MiB went upstream while one of a byte more got 413.
C8_Witness ==
    \E r, q \in Req :
        /\ inp[r].body.size = 10 * 1024 * 1024 /\ loop[r].sent # <<>>
        /\ inp[q].body.size = 10 * 1024 * 1024 + 1
        /\ Answered(q, 413, "Request body too large (limit: 10MB)")

\* The request reached the allowed-models check of the handler with a model
\* that is neither in the tenant's list nor covered by "*".
ModelRefused(r) ==
    /\ hist[r].handlerRan
    /\ inp[r].body.size <= 10 * 1024 * 1024 /\ ~inp[r].body.readErr
    /\ inp[r].body.json /\ inp[r].body.nmsgs <= 50
    /\ \A i \in 1..Len(tenantCtx[r][1].allowed_models) :
          tenantCtx[r][1].allowed_models[i] \notin {"*", inp[r].body.model}

\* C9: a model that is neither in the tenant's allowed-models list nor covered
\* by "*" is answered 403 without the model catalog being consulted, whether
\* or not the catalog holds the model or is reachable, with nothing sent
\* upstream, no TPM increment and no usage record.
C9_ForbiddenModelBeforeCatalog ==
    \A r \in Req :
        ModelRefused(r) =>
            /\ Answered(r, 403, "Model not allowed for this tenant")
            /\ pc[r] = "done"
            /\ hist[r].catalogLookups = 0
            /\ NoUpstreamNoBookkeeping(r)

\* 403 for a model the catalog holds, beside 403 for one it cannot resolve.
C9_Witness ==
    \E r, q \in Req :
        /\ ModelRefused(r) /\ inp[r].body.model \in DOMAIN ModelTable
        /\ inp[r].env.catalog
        /\ Answered(r, 403, "Model not allowed for this tenant")
        /\ ModelRefused(q)
        /\ (inp[q].body.model \notin DOMAIN ModelTable \/ ~inp[q].env.catalog)
        /\ Answered(q, 403, "Model not allowed for this tenant")

\* Intake validation as the request's content and the catalog decide it.
IntakeValid(r) ==
    /\ inp[r].body.size <= 10 * 1024 * 1024 /\ ~inp[r].body.readErr
    /\ inp[r].body.json /\ inp[r].body.nmsgs <= 50
    /\ \E i \in 1..Len(tenantCtx[r][1].allowed_models) :
          tenantCtx[r][1].allowed_models[i] \in {"*", inp[r].body.model}
    /\ inp[r].env.catalog
    /\ inp[r].body.model \in DOMAIN ModelTable
    /\ ModelTable[inp[r].body.model].base_urls # <<>>

\* The gateway turned r away in the auth filter, the admission filter or
\* intake.
Rejected(r) ==
    /\ resp[r] # <<>>
    /\ resp[r][1].by = "gateway"
    /\ resp[r][1].status \in {400, 401, 403, 404, 413, 429, 500}

\* C10: whenever a request has been submitted to an upstream, the auth
\* filter had attached its tenant, the admission filter had passed its RPM
\* and its TPM check and intake validation had succeeded; a request turned
\* away at one of these steps is never submitted.
C10_UpstreamOnlyAfterPipeline ==
    \A r \in Req :
        /\ loop[r].sent # <<>> =>
              /\ tenantCtx[r] # <<>>
              /\ hist[r].lookup # <<>> /\ hist[r].lookup[1].tenant = tenantCtx[r]
              /\ PassedRPM(r)
              /\ hist[r].rpmVal <= tenantCtx[r][1].rpm_limit
              /\ hist[r].admitted
              /\ hist[r].tpmVal # -1
              /\ hist[r].tpmVal <= tenantCtx[r][1].tpm_limit
              /\ hist[r].handlerRan
              /\ IntakeValid(r)
        /\ Rejected(r) => loop[r].sent = <<>>
        /\ pc[r] \in {"AuthMiddleware", "RateLimitMiddleware",
                      "RateLimitMiddleware_TPM", "CreateCompletion"}
              => loop[r].sent = <<>>

\* One request was sent upstream, another turned away before.
C10_Witness ==
    \E r, q \in Req :
        /\ loop[r].sent # <<>> /\ hist[r].admitted
        /\ Rejected(q) /\ hist[q].handlerRan /\ loop[q].sent = <<>>

(***************************************************************************)
(* Retry loop claims, checked on SpecRetry.                                *)
(***************************************************************************)
\* The request has entered the retry loop.
InLoop(r) == loop[r].retryMax # -1

\* The request has left the retry loop.
LoopLeft(r) == InLoop(r) /\ pc[r] \in {"respond", "done"}

Clipped(v, lo, hi) == IF v < lo THEN lo ELSE IF v > hi THEN hi ELSE v

\* C12: the retry overrides are clipped to their ranges: a numeric
\* X-LLM-Retry-Max outside 0..10 yields the nearest bound (11 yields 10), a
\* non-negative numeric X-LLM-Retry-Backoff-Ms is used as it is and the backoff
\* is never negative; absent headers leave retry_max 3 and backoff_ms 100.
C12_OverridesClipped ==
    \A r \in Req :
        InLoop(r) =>
            LET m == Atoi(inp[r].retryMaxHdr)
                b == Atoi(inp[r].backoffHdr)
            IN  /\ inp[r].retryMaxHdr = <<>> => loop[r].retryMax = 3
                /\ m.ok => loop[r].retryMax = Clipped(m.val, 0, 10)
                /\ inp[r].backoffHdr = <<>> => loop[r].backoffMs = 100
                /\ b.ok /\ b.val >= 0 => loop[r].backoffMs = b.val
                /\ loop[r].backoffMs >= 0

\* The iteration ended with an HTTP response of the upstream.
Responded(e) == e.call = "sent" /\ e.err = ""

\* The iteration's result is what the loop calls a success.
SuccessEntry(e) == Responded(e) /\ e.status < 500 /\ e.status # 429

\* C13: an attempt that ends with an HTTP response of status < 500 other
\* than 429 is the last one of its request: the loop is left, no further
\* call is made, and the caller is answered with exactly that status.
C13_StopsAtFirstSuccess ==
    \A r \in Req :
        \A i \in 1..Len(loop[r].trail) :
            SuccessEntry(loop[r].trail[i]) =>
                /\ i = Len(loop[r].trail)
                /\ loop[r].calls = i
                /\ loop[r].trail[i].exit
                /\ pc[r] \in {"respond", "done"}
                /\ pc[r] = "done" =>
                      /\ resp[r][1].status = loop[r].trail[i].status
                      /\ resp[r][1].by = "upstream"

\* A request whose first attempt got a 500 and whose second got a 404 was
\* answered 404 after two attempts.
C13_Witness ==
    \E r \in Req :
        /\ pc[r] = "done" /\ Len(loop[r].trail) = 2
        /\ loop[r].trail[1].status = 500
        /\ SuccessEntry(loop[r].trail[2]) /\ loop[r].trail[2].status = 404
        /\ resp[r][1].status = 404 /\ resp[r][1].by = "upstream"

\* The URL that follows url in the rotation over urls.
NextURL(urls, url) ==
    LET j == CHOOSE x \in 1..Len(urls) : urls[x] = url
    IN  urls[(j % Len(urls)) + 1]

\* Every call of the request was let through by the breaker.
AllSent(r) == \A i \in 1..Len(loop[r].trail) : loop[r].trail[i].call = "sent"

\* C14: after an attempt answered 429 with budget left, nothing is slept and
\* the next attempt goes to the next URL of base_urls; a request whose
\* upstream A answers 429 and whose upstream B answers 200 makes one attempt
\* to A, one to B, sleeps nothing and is answered with B's response.
C14_FailoverOn429WithoutBackoff ==
    \A r \in Req :
        /\ \A i \in 1..Len(loop[r].trail) :
              LET e == loop[r].trail[i]
              IN  (Responded(e) /\ e.status = 429 /\ e.attempt <= loop[r].retryMax) =>
                      /\ e.slept = -1
                      /\ ~e.exit
                      /\ IF i < Len(loop[r].trail)
                         THEN loop[r].trail[i + 1].url =
                                  NextURL(loop[r].baseURLs, e.url)
                         ELSE pc[r] = "retry"
        /\ ( /\ LoopLeft(r) /\ AllSent(r)
             /\ loop[r].baseURLs = <<"a", "b">>
             /\ loop[r].retryMax >= 1
             /\ inp[r].upstream = <<Response(429, <<>>), Response(200, <<>>)>> )
           => /\ Len(loop[r].sent) = 2
              /\ loop[r].sent[1].url = "a" /\ loop[r].sent[2].url = "b"
              /\ loop[r].slept = <<>>
              /\ pc[r] = "done" =>
                    resp[r] = <<Passthrough(Response(200, <<>>))>>

\* The request with upstreams [a, b], a answering 429 and b answering 200,
\* was answered 200 after one attempt to each.
C14_Witness ==
    \E r \in Req :
        /\ pc[r] = "done" /\ Len(loop[r].trail) = 2
        /\ Responded(loop[r].trail[1]) /\ loop[r].trail[1].status = 429
        /\ loop[r].trail[1].url = "a" /\ loop[r].trail[1].slept = -1
        /\ Responded(loop[r].trail[2]) /\ loop[r].trail[2].status = 200
        /\ loop[r].trail[2].url = "b"
        /\ loop[r].slept = <<>>
        /\ resp[r][1].status = 200 /\ resp[r][1].by = "upstream"

\* The iteration failed otherwise than by a 429 response: on the transport,
\* or with a response of status >= 500.
FailedNot429(e) ==
    /\ e.call = "sent"
    /\ e.err = "transport" \/ (e.err = "" /\ e.status >= 500)

\* C15: after an attempt that failed otherwise than by a 429 response, with
\* budget left, the handler sleeps backoff_ms * 2^(attempt-1), attempt being
\* the number of failed attempts so far, whatever the earlier attempts of
\* the request ended with.
C15_BackoffAfterEveryOtherFailure ==
    \A r \in Req :
        \A i \in 1..Len(loop[r].trail) :
            LET e == loop[r].trail[i]
            IN  (FailedNot429(e) /\ e.attempt <= loop[r].retryMax) =>
                    /\ e.attempt = i
                    /\ e.slept = loop[r].backoffMs * Pow2(i - 1)

\* The number of iterations of the request that submitted to the upstream.
SentCount(r) ==
    Cardinality({i \in 1..Len(loop[r].trail) : loop[r].trail[i].call = "sent"})

\* C16: a call made while the breaker is open returns without the upstream
\* being contacted and ends the loop of its request at once, with no further
\* call and no sleep whatever budget is left; the caller is answered 502 and
\* no bookkeeping task is scheduled.
C16_OpenBreakerIsTerminal ==
    \A r \in Req :
        /\ SentCount(r) = Len(loop[r].sent)
        /\ \A i \in 1..Len(loop[r].trail) :
              LET e == loop[r].trail[i]
              IN  e.breaker = "open" =>
                      /\ e.call = "open"
                      /\ i = Len(loop[r].trail) /\ loop[r].calls = i
                      /\ e.exit /\ e.slept = -1
                      /\ pc[r] \in {"respond", "done"}
                      /\ task[r] = NoTask /\ hist[r].scheduled = 0
                      /\ pc[r] = "done" =>
                            resp[r] = <<ErrorJSON(502, "Upstream provider failed")>>

\* A request with its whole default budget left found the breaker open on
\* its first call and was answered 502 with nothing sent upstream.
C16_Witness ==
    \E r \in Req :
        /\ pc[r] = "done" /\ Len(loop[r].trail) = 1
        /\ loop[r].trail[1].call = "open" /\ loop[r].trail[1].attempt = 0
        /\ loop[r].retryMax = 3
        /\ loop[r].sent = <<>>
        /\ resp[r][1].status = 502

\* The request whose failures opened the breaker met it open on its last call.
C16_WitnessSameRequest ==
    \E r \in Req :
        /\ pc[r] = "done" /\ Len(loop[r].trail) = 11
        /\ loop[r].trail[11].call = "open" /\ Len(loop[r].sent) = 10
        /\ resp[r][1].status = 502

\* The loop of the request ended without a success response: its last
\* iteration failed on the transport, with a 5xx or a 429, or met the
\* breaker open.
EndedWithoutSuccess(r) ==
    /\ LoopLeft(r)
    /\ ~SuccessEntry(loop[r].trail[Len(loop[r].trail)])

\* C17: a request whose retry loop ended without a success response is
\* answered 502 with a JSON error body written by the gateway; no upstream
\* response is passed through.
C17_NoSuccessGives502 ==
    \A r \in Req :
        (EndedWithoutSuccess(r) /\ pc[r] = "done") =>
            /\ resp[r][1].status = 502
            /\ resp[r][1].by = "gateway"
            /\ resp[r][1].error # ""

\* What an upstream reads of a submitted body is, byte for byte, what the
\* caller sent.
SameBytes(sentBody, callerBody) ==
    /\ sentBody.from = 0
    /\ sentBody.bytes = BodyBytesOf(callerBody, callerBody.size)

\* C18: on every attempt of a request the body submitted upstream is
\* byte-identical to the body the caller sent, and the buffered body is left
\* as it was read.
C18_SameBodyOnEveryAttempt ==
    \A r \in Req :
        /\ \A i \in 1..Len(loop[r].sent) :
              SameBytes(loop[r].sent[i].body, inp[r].body)
        /\ InLoop(r) =>
              loop[r].bodyBytes = BodyBytesOf(inp[r].body, inp[r].body.size)

\* A request was submitted four times, to both upstreams in turn, each time
\* with the caller's body.
C18_Witness ==
    \E r \in Req :
        /\ Len(loop[r].sent) = 4
        /\ loop[r].sent[1].url # loop[r].sent[2].url
        /\ loop[r].sent[3].url = loop[r].sent[1].url
        /\ \A i \in 1..4 : SameBytes(loop[r].sent[i].body, inp[r].body)
        /\ inp[r].body.size > 0

\* The header names an upstream request must not carry.
Dropped == {"X-Llm-Retry-Max", "X-Llm-Retry-Backoff-Ms", "Host"}

\* The credential of the model the request names.
Credential(r) == Getenv(ModelTable[inp[r].body.model].api_key_env)

\* C19: every request submitted upstream carries Authorization: Bearer
\* <credential of the model>, also for an empty credential, and never the
\* caller's Authorization value; it carries none of X-LLM-Retry-Max,
\* X-LLM-Retry-Backoff-Ms and Host; every other header of the caller is
\* forwarded with all its values and nothing is added; c.Request.Header is
\* left as the caller sent it.
C19_UpstreamHeaders ==
    \A r \in Req :
        /\ InLoop(r) => loop[r].reqHeader = RequestHeader(inp[r])
        /\ \A i \in 1..Len(loop[r].sent) :
              LET h == loop[r].sent[i].header
                  own == RequestHeader(inp[r])
                  others == DOMAIN own \ (Dropped \cup {"Authorization"})
              IN  /\ "Authorization" \in DOMAIN h
                  /\ h["Authorization"] = << <<"Bearer", SP, Credential(r)>> >>
                  /\ h["Authorization"] # << inp[r].authorization >>
                  /\ DOMAIN h \cap Dropped = {}
                  /\ DOMAIN h = others \cup {"Authorization"}
                  /\ \A k \in others : h[k] = own[k]

\* A request that came with both override headers, a two-valued header and
\* a tenant key, for a model without credential, was submitted twice.
C19_Witness ==
    \E r \in Req :
        /\ Len(loop[r].sent) = 2
        /\ Credential(r) = ""
        /\ {"X-Llm-Retry-Max", "X-Llm-Retry-Backoff-Ms", "Authorization", "Accept"}
               \subseteq DOMAIN loop[r].reqHeader
        /\ Len(loop[r].sent[2].header["Accept"]) = 2
        /\ loop[r].sent[2].header["Authorization"] = << <<"Bearer", SP, "">> >>

\* The same for a model with a credential.
C19_WitnessCredential ==
    \E r \in Req :
        /\ Len(loop[r].sent) = 2
        /\ loop[r].sent[2].header["Authorization"] = << Bearer("sk-upstream") >>
        /\ "X-Llm-Retry-Max" \in DOMAIN loop[r].reqHeader

\* C20: when an upstream response is passed through, every header name of
\* it reaches the caller with all the values the upstream sent, duplicates
\* of a name included.
C20_ResponseHeadersVerbatim ==
    \A r \in Req :
        (pc[r] = "done" /\ InLoop(r) /\ resp[r][1].by = "upstream") =>
            \A k \in DOMAIN loop[r].resp[1].header :
                /\ k \in DOMAIN resp[r][1].header
                /\ resp[r][1].header[k] = loop[r].resp[1].header[k]

(***************************************************************************)
(* Response body claims, checked on SpecStream.                            *)
(***************************************************************************)
\* The caller of r has been answered with a response of the upstream.
PassedThrough(r) == pc[r] = "done" /\ InLoop(r) /\ resp[r][1].by = "upstream"

\* C21: the body the caller receives for a passed-through response is, byte
\* for byte, the body the upstream sent, buffered or streamed: the same
\* lines in the same order with the same terminators, none missing.
C21_BodyByteExact ==
    \A r \in Req :
        PassedThrough(r) => resp[r][1].lines = loop[r].resp[1].lines

\* C22: a streamed response records TTFT exactly once, at the first line
\* forwarded, when a line is forwarded, and not at all when none is; a
\* buffered response never records it, nor does a request that is answered
\* by the gateway itself.
C22_TTFTOnce ==
    \A r \in Req :
        /\ ~PassedThrough(r) => hist[r].ttft = <<>>
        /\ PassedThrough(r) =>
              IF inp[r].body.stream /\ resp[r][1].lines # <<>>
              THEN hist[r].ttft = <<1>>
              ELSE hist[r].ttft = <<>>

\* A stream of six lines was forwarded and TTFT recorded at its first line.
C22_Witness ==
    \E r \in Req :
        /\ PassedThrough(r) /\ inp[r].body.stream
        /\ Len(resp[r][1].lines) = 6 /\ hist[r].ttft = <<1>>

\* A stream of which nothing was forwarded recorded none; neither did a
\* buffered response with a body.
C22_WitnessNone ==
    \E r, q \in Req :
        /\ PassedThrough(r) /\ inp[r].body.stream
        /\ loop[r].resp[1].lines # <<>> /\ resp[r][1].lines = <<>>
        /\ hist[r].ttft = <<>>
        /\ PassedThrough(q) /\ ~inp[q].body.stream
        /\ resp[q][1].lines # <<>> /\ hist[q].ttft = <<>>

\* The line is one the count looks into: "data: " followed by a payload
\* other than [DONE] that parses and has a choice.
CountedLine(line) == line.kind = "data"

RECURSIVE SumTokens(_)
\* The sum over the counted lines of floor(len(content)/4).
SumTokens(lines) ==
    IF lines = <<>> THEN 0
    ELSE (IF CountedLine(Head(lines)) THEN Head(lines).content \div 4 ELSE 0)
         + SumTokens(Tail(lines))

\* Line i of the upstream body reached the caller as line i, and the line
\* after it, unless that one is over-long itself, was forwarded too.
ForwardedAndGoesOn(r, i) ==
    LET up == loop[r].resp[1].lines
        out == resp[r][1].lines
    IN  /\ i <= Len(out)
        /\ out[i] = [up[i] EXCEPT !.term = "\n"]
        /\ (i < Len(up) /\ ~TooLong(up[i + 1])) => i + 1 <= Len(out)

C23_WitnessCut ==
    \E r \in Req :
        /\ PassedThrough(r) /\ inp[r].body.stream
        /\ Len(loop[r].resp[1].lines) = 3 /\ Len(resp[r][1].lines) = 1
        /\ task[r].out = 1

(***************************************************************************)
(* Usage records, checked on SpecUsage.                                    *)
(***************************************************************************)
\* The caller of r has been answered with a 2xx response of the upstream.
Answered2xx(r) == PassedThrough(r) /\ resp[r][1].status \in 200..299

\* The usage record the request is to leave in the sink.
ExpectedRecord(r) ==
    [tenant_id |-> tenantCtx[r][1].tenant_id, timestamp |-> loop[r].start,
     request_id |-> r, model_id |-> inp[r].body.model,
     input_tokens |-> inp[r].body.size \div 4,
     output_tokens |-> IF inp[r].body.stream
                       THEN SumTokens(resp[r][1].lines)
                       ELSE BodyBytes(resp[r][1].lines) \div 4]

\* C24: for a request answered with a 2xx of the upstream whose usage sink
\* does not fail, exactly one usage record is eventually appended to the
\* sink -- at no time more than one -- and it carries the tenant id, the
\* model id, floor(len(request body) / 4) input tokens and the output tokens
\* counted for the response.
C24_OneUsageRecord ==
    /\ [](\A r \in Req :
             /\ hist[r].logged <= 1
             /\ Cardinality({u \in usage : u.request_id = r}) <= 1)
    /\ \A r \in Req :
          (Answered2xx(r) /\ inp[r].env.sinkFails = 0)
             ~> (hist[r].logged = 1 /\ ExpectedRecord(r) \in usage)

\* A buffered request of 62 bytes (15 input tokens) answered 200 with 52
\* bytes (13 output tokens) has left its record, and so has a streamed one
\* answered 201.
C24_Witness ==
    \E r \in Req :
        /\ Answered2xx(r) /\ inp[r].env.sinkFails = 0
        /\ ~inp[r].body.stream /\ inp[r].body.size = 62
        /\ hist[r].logged = 1
        /\ \E u \in usage :
              /\ u.request_id = r /\ u.tenant_id = "t1" /\ u.model_id = "m1"
              /\ u.input_tokens = 15 /\ u.output_tokens = 13

C24_WitnessStream ==
    \E r \in Req :
        /\ Answered2xx(r) /\ inp[r].body.stream /\ resp[r][1].status = 201
        /\ \E u \in usage :
              u.request_id = r /\ u.input_tokens = 1 /\ u.output_tokens = 2

(***************************************************************************)
(* The breaker and upstream status codes, checked on SpecBreaker.          *)
(***************************************************************************)
\* The first n calls of request r were answered 500 by the upstream.
Answered500(r, n) ==
    /\ Len(loop[r].trail) >= n
    /\ \A i \in 1..n : Responded(loop[r].trail[i]) /\ loop[r].trail[i].status = 500

\* C25: a status of 500 or more counts as a failure for the breaker: after
\* 10 consecutive calls answered 500 the breaker is open, and the 11th call
\* finds it open and is answered 502 without the upstream being contacted.
C25_Status500TripsBreaker ==
    \A r \in Req :
        Answered500(r, 10) =>
            /\ Len(loop[r].trail) = 10 /\ pc[r] = "retry" => cb.state = "open"
            /\ Len(loop[r].trail) >= 11 => loop[r].trail[11].call = "open"
            /\ Len(loop[r].sent) <= 10

(***************************************************************************)
(* URL selection in the retry loop, checked on SpecRetry.                  *)
(***************************************************************************)
\* The iteration ended in what the loop treats as a failure of the call.
FailedEntry(e) ==
    e.call = "sent" /\ (e.err # "" \/ e.status >= 500 \/ e.status = 429)

\* C30: urlIndex equals attempt at every head of the retry loop, so the k-th
\* call (k from 0) goes to baseURLs[k mod len(baseURLs)], in list order from
\* the primary and wrapping around; the index advances by one after a
\* transport error, a status of 500 or more and a 429, and stays otherwise.
C30_UrlIndexFollowsAttempt ==
    \A r \in Req :
        InLoop(r) =>
            /\ loop[r].urlIndex = loop[r].attempt
            /\ \A i \in 1..Len(loop[r].trail) :
                  LET e == loop[r].trail[i]
                      n == Len(loop[r].baseURLs)
                  IN  /\ e.headAttempt = i - 1 /\ e.headIndex = i - 1
                      /\ e.url = loop[r].baseURLs[((i - 1) % n) + 1]
                      /\ e.urlIndex = e.headIndex + (IF FailedEntry(e) THEN 1 ELSE 0)

\* Four calls over two URLs went to a, b, a, b after a failure each; and a
\* second call went to the only URL of a model again.
C30_Witness ==
    \E r \in Req :
        /\ Len(loop[r].baseURLs) = 2 /\ Len(loop[r].trail) = 4
        /\ \A i \in 1..3 : FailedEntry(loop[r].trail[i])
        /\ loop[r].trail[3].url = loop[r].trail[1].url
        /\ loop[r].trail[4].url = loop[r].trail[2].url
        /\ loop[r].trail[1].url # loop[r].trail[2].url

C30_WitnessSingleURL ==
    \E r \in Req :
        /\ Len(loop[r].baseURLs) = 1 /\ Len(loop[r].trail) = 2
        /\ FailedEntry(loop[r].trail[1])
        /\ loop[r].trail[2].url = loop[r].trail[1].url
        /\ loop[r].trail[2].headIndex = 1

(***************************************************************************)
(* Tenant defaults, checked on SpecDefaults.                               *)
(***************************************************************************)
\* C29: a tenant returned by a lookup has the defaults applied at read time:
\* rpm_limit 100 and tpm_limit 100000 when the row has none, and the allowed
\* models {"*"} when the row has no list, so that the tenant of such a row
\* may use every model.
C29_DefaultsAtRead ==
    \A r \in Req :
        tenantCtx[r] # <<>> =>
            LET t == tenantCtx[r][1]
                row == directory[PresentedKey(inp[r].authorization)]
            IN  /\ t.rpm_limit = IF row.rpm_limit = 0 THEN 100 ELSE row.rpm_limit
                /\ t.tpm_limit = IF row.tpm_limit = 0 THEN 100000 ELSE row.tpm_limit
                /\ t.allowed_models = IF row.allowed_models = <<>> THEN <<"*">>
                                      ELSE row.allowed_models
                /\ row.allowed_models = <<>> =>
                      ~Answered(r, 403, "Model not allowed for this tenant")

(***************************************************************************)
(* Shutdown, checked on SpecShutdown.                                      *)
(***************************************************************************)
\* The goroutines outstanding when Handler.Shutdown was called that have
\* not finished.
Remaining == {r \in main.pending : task[r].state # "done"}

\* C26: Handler.Shutdown returns nil only when the counter of outstanding
\* goroutines has been seen at zero, all those outstanding at the call
\* having finished; it returns while some of them remain only with the
\* deadline error and only after the deadline of ctx has passed; with a ctx
\* that has no deadline it returns nil, after all of them have finished.
C26_ShutdownWaitsOrTimesOut ==
    main.pc = "exited" =>
        /\ main.err = "" => main.done /\ Remaining = {}
        /\ Remaining # {} =>
              main.err = "context deadline exceeded" /\ CtxDone(main)
        /\ main.deadline = -1 => main.err = "" /\ Remaining = {}

\* Shutdown was called with a deadline while a goroutine was outstanding
\* and returned nil after that goroutine had stored its record.
C26_Witness ==
    /\ main.pc = "exited" /\ main.err = "" /\ main.deadline # -1
    /\ \E r \in main.pending : task[r].state = "done" /\ hist[r].logged = 1

\* Shutdown returned the deadline error with a goroutine still outstanding.
C26_WitnessDeadline ==
    /\ main.pc = "exited" /\ main.err = "context deadline exceeded"
    /\ Remaining # {}

\* Shutdown was called without a deadline while a goroutine was outstanding.
C26_WitnessUnbounded ==
    /\ main.pc = "exited" /\ main.deadline = -1 /\ main.pending # {}

\* The goroutine of r has run to its end, and its record is in the sink
\* unless all three calls of the sink failed.
Completed(r) ==
    /\ task[r].state = "done"
    /\ inp[r].env.sinkFails < 3 =>
          hist[r].logged = 1 /\ \E u \in usage : u.request_id = r

C28_TaskDetachedFromCaller ==
    \A r \in Req :
        /\ hist[r].scheduled > 0 => task[r].state # "none"
        /\ task[r].state = "done" =>
              /\ inp[r].env.incr => hist[r].incrBucket # -1
              /\ inp[r].env.sinkFails < 3 =>
                    /\ hist[r].logged = 1
                    /\ task[r].i = inp[r].env.sinkFails
                    /\ ExpectedRecord(r) \in usage

\* The client went away while the goroutine was about to increment the TPM
\* counter, and the goroutine has stored its record all the same.
C28_Witness ==
    \E r \in Req :
        /\ hist[r].disconnect = <<"tpm">> /\ reqCtx[r] = "canceled"
        /\ task[r].state = "done" /\ hist[r].logged = 1
        /\ hist[r].incrBucket # -1

\* The client went away between two calls of the sink.
C28_WitnessBetweenCalls ==
    \E r \in Req :
        /\ hist[r].disconnect = <<"log">> /\ inp[r].env.sinkFails = 1
        /\ task[r].state = "done" /\ hist[r].logged = 1

(***************************************************************************)
(* The RPM counter, checked on SpecAdmission.                              *)
(***************************************************************************)
\* The RPM key of the tenant of r in the bucket of the current time.
RpmKey(r) == <<"rpm", tenantCtx[r][1].tenant_id, Bucket(now)>>

\* The step is the admission filter of r getting a value from IncrementRPM.
GotRpm(r) == hist[r].rpmVal = -1 /\ hist'[r].rpmVal # -1

\* C31: every run of the admission filter that reaches a healthy store adds
\* exactly 1 to the RPM counter of its tenant in the current bucket and gets
\* the new count, whether it is then admitted or answered 429 for RPM or
\* for TPM; the values returned within one (tenant, bucket) are pairwise
\* different and rise in the order in which the store applied the
\* increments; and a counter is never lowered: its count never falls and its
\* key goes away only after its bucket is over.
C31_RpmCountedOnceAndMonotone ==
    /\ [](\A r, q \in Req :
             (hist[r].rpmVal # -1 /\ hist[q].rpmVal # -1 /\ r # q
                /\ tenantCtx[r][1].tenant_id = tenantCtx[q][1].tenant_id
                /\ hist[r].rpmBucket = hist[q].rpmBucket) =>
                   /\ hist[r].rpmVal # hist[q].rpmVal
                   /\ hist[r].rpmPos < hist[q].rpmPos
                         <=> hist[r].rpmVal < hist[q].rpmVal)
    /\ [][\A r \in Req :
             GotRpm(r) =>
                 /\ Count(rl', RpmKey(r)) = Count(rl, RpmKey(r)) + 1
                 /\ hist'[r].rpmVal = Count(rl', RpmKey(r))]_vars
    /\ [][\A k \in DOMAIN rl :
             k[1] = "rpm" =>
                 IF k \in DOMAIN rl' THEN rl'[k].count >= rl[k].count
                 ELSE Bucket(now') > k[3]]_vars

\* Of two requests of a tenant counted 1 and 2 in one bucket, the second
\* was answered 429 for RPM.
C31_Witness ==
    \E r, q \in Req :
        /\ hist[r].rpmVal = 1 /\ hist[q].rpmVal = 2
        /\ hist[r].rpmBucket = hist[q].rpmBucket
        /\ tenantCtx[r] = tenantCtx[q]
        /\ resp[q] = RPM429(q)

\* The second of them was answered 429 for TPM.
C31_WitnessTpm ==
    \E r, q \in Req :
        /\ hist[r].rpmVal = 1 /\ hist[q].rpmVal = 2
        /\ hist[r].rpmBucket = hist[q].rpmBucket
        /\ tenantCtx[r] = tenantCtx[q]
        /\ resp[q] = TPM429(q)

\* The second of them was admitted.
C31_WitnessAdmitted ==
    \E r, q \in Req :
        /\ hist[r].rpmVal = 1 /\ hist[q].rpmVal = 2
        /\ hist[r].rpmBucket = hist[q].rpmBucket
        /\ tenantCtx[r] = tenantCtx[q]
        /\ hist[q].admitted

(***************************************************************************)
(* The bookkeeping goroutine, checked on SpecBookkeeping.                  *)
(***************************************************************************)
\* The goroutines started and not yet ended.
Unfinished == {r \in Req : task[r].state \in {"tpm", "log"}}

\* The TPM key of the goroutine of r in the bucket of the current time.
TpmKey(r) == <<"tpm", task[r].tid, Bucket(now)>>

\* C32: the in-flight counter is raised by one when a goroutine is started
\* and lowered once when it ends, so it is never negative and always the
\* number of goroutines started and not ended.  A goroutine makes one call
\* of IncrementTPM, with input + output tokens, and goes on whether or not
\* the call failed; then it calls the sink at most 3 times, every time with
\* the same record, and stops at the first call that succeeds; it ends, and
\* the counter is lowered, also when all three calls failed.
C32_TaskLifecycle ==
    /\ [](/\ wg >= 0 /\ wg = Cardinality(Unfinished)
          /\ \A r \in Req :
                LET h == hist[r]
                    n == Len(h.sinkCalls)
                    fails == inp[r].env.sinkFails
                IN  /\ task[r].state = "none" =>
                          h.scheduled = 0 /\ h.tpmCalls = 0 /\ n = 0
                    /\ task[r].state = "tpm" =>
                          h.scheduled = 1 /\ h.tpmCalls = 0 /\ n = 0
                    /\ task[r].state = "log" =>
                          /\ h.scheduled = 1 /\ h.tpmCalls = 1
                          /\ n < 3 /\ n <= fails /\ h.logged = 0
                    /\ task[r].state = "done" =>
                          /\ h.scheduled = 1 /\ h.tpmCalls = 1
                          /\ n = IF fails < 3 THEN fails + 1 ELSE 3
                          /\ h.logged = IF fails < 3 THEN 1 ELSE 0
                    /\ \A i \in 1..n : h.sinkCalls[i] = h.sinkCalls[1]
                    /\ \A i \in 1..n : h.sinkCalls[i].request_id = r)
    /\ [][\A r \in Req :
             (task[r].state = "tpm" /\ task'[r].state # "tpm") =>
                 /\ task'[r].state = "log"
                 /\ IF inp[r].env.incr
                    THEN Count(rl', TpmKey(r)) =
                             Count(rl, TpmKey(r)) + task[r].in + task[r].out
                    ELSE rl' = rl]_vars
    /\ [][wg' # wg =>
             \/ wg' = wg + 1 /\ Cardinality(Unfinished') = Cardinality(Unfinished) + 1
             \/ wg' = wg - 1 /\ Cardinality(Unfinished') = Cardinality(Unfinished) - 1]_vars

\* A goroutine whose IncrementTPM failed went on, called the sink twice and
\* stored its record at the second call.
C32_Witness ==
    \E r \in Req :
        /\ task[r].state = "done" /\ ~inp[r].env.incr
        /\ hist[r].tpmCalls = 1 /\ hist[r].incrBucket = -1
        /\ Len(hist[r].sinkCalls) = 2 /\ hist[r].logged = 1
        /\ wg = Cardinality(Unfinished)

\* A goroutine ended after three failed calls of the sink, and the counter
\* is back at zero.
C32_WitnessAllFailed ==
    \E r \in Req :
        /\ task[r].state = "done" /\ Len(hist[r].sinkCalls) = 3
        /\ hist[r].logged = 0 /\ wg = 0

\* Two goroutines are outstanding at once.
C32_WitnessTwo == wg = 2

(***************************************************************************)
(* A failing read of the upstream body, checked on SpecStreamCut.          *)
(***************************************************************************)
\* The places of the body at which a read fails.
ErrorsAt(lines) == {i \in 1..Len(lines) : lines[i].kind = "err"}

\* The lines of the body before the first failing read.
BeforeError(lines) ==
    LET first == CHOOSE i \in ErrorsAt(lines) : \A j \in ErrorsAt(lines) : i <= j
    IN  SubSeq(lines, 1, first - 1)

\* C33: when reading the upstream body fails partway through a streamed
\* response, the caller has been sent every line received before the
\* failure and nothing after it, and the goroutine is started all the same,
\* once, with the output tokens counted up to the failure.
C33_ReadErrorKeepsPrefix ==
    \A r \in Req :
        (/\ PassedThrough(r) /\ inp[r].body.stream
         /\ ErrorsAt(loop[r].resp[1].lines) # {}) =>
            LET got == BeforeError(loop[r].resp[1].lines)
            IN  /\ Len(resp[r][1].lines) = Len(got)
                /\ \A i \in 1..Len(got) :
                      resp[r][1].lines[i] = [got[i] EXCEPT !.term = "\n"]
                /\ hist[r].scheduled = 1 /\ task[r].state # "none"
                /\ task[r].out = SumTokens(got)

\* A stream failed after three lines, two of them events of 8 and 5 bytes:
\* three lines reached the caller and 3 output tokens are recorded.
C33_Witness ==
    \E r \in Req :
        /\ PassedThrough(r) /\ inp[r].body.stream
        /\ Len(loop[r].resp[1].lines) = 5
        /\ loop[r].resp[1].lines[4].kind = "err"
        /\ Len(resp[r][1].lines) = 3
        /\ task[r].state = "done" /\ task[r].out = 3
        /\ \E u \in usage : u.request_id = r /\ u.output_tokens = 3

\* A stream failed before its first byte: nothing was forwarded, and the
\* goroutine ran with 0 output tokens.
C33_WitnessNothing ==
    \E r \in Req :
        /\ PassedThrough(r) /\ inp[r].body.stream
        /\ loop[r].resp[1].lines[1].kind = "err"
        /\ resp[r][1].lines = <<>> /\ hist[r].scheduled = 1 /\ task[r].out = 0

(***************************************************************************)
(* Tenant cache under concurrent lookups.                                  *)
(***************************************************************************)
\* Whether w stored for `key` exactly the pair of entry e.
StoredBy(w, key, e) ==
    /\ hist[w].stored # <<>>
    /\ hist[w].stored[1].key = key
    /\ e.tenant = <<hist[w].stored[1].tenant>>
    /\ e.expiresAt = hist[w].stored[1].expiresAt

\* Whether the lookup of r has returned.
Returned(r) == hist[r].lookup # <<>>

C34_WitnessExpired ==
    \E q \in Req :
       /\ Returned(q) /\ hist[q].item # <<>>
       /\ hist[q].seen # <<>>
       /\ hist[q].seen[1].entry.found
       /\ hist[q].seen[1].at = hist[q].seen[1].entry.expiresAt

\* Two lookups of the same key missed the cache together and both stored
\* their entry; the row was deactivated after they had read it.
C34_WitnessConcurrent ==
    \E r, q \in Req :
       /\ r # q
       /\ hist[r].stored # <<>> /\ hist[q].stored # <<>>
       /\ hist[r].stored[1].key = hist[q].stored[1].key
       /\ ~hist[q].seen[1].entry.found /\ ~hist[r].seen[1].entry.found
       /\ ~directory[hist[r].stored[1].key].is_active

(***************************************************************************)
(* The response variable of the retry loop.                                *)
(***************************************************************************)
\* The status code of resp is read with lastErr == nil as the only guard by
\* the success test, the failover decision and the passthrough, and behind
\* "resp != nil" by the backoff skip and the 5xx exit check.
ReadsStatus(r) ==
    /\ loop[r].calls > 0
    /\ loop[r].lastErr = ""

\* C35: whenever the retry loop or the code after it reads the status code
\* of the response the response is there, and it is the response of the last
\* attempt made; so is the response passed through to the caller.
C35_ResponsePresentAndLast ==
    \A r \in Req :
       /\ \A i \in 1..Len(loop[r].trail) :
             loop[r].trail[i].err = "" => loop[r].trail[i].present
       /\ ReadsStatus(r) =>
             /\ loop[r].resp # <<>>
             /\ loop[r].sent # <<>>
             /\ ~Outcome(r, Len(loop[r].sent)).err
             /\ loop[r].resp[1] = Outcome(r, Len(loop[r].sent))
       /\ PassedThrough(r) =>
             /\ ReadsStatus(r)
             /\ resp[r][1].status = Outcome(r, Len(loop[r].sent)).status
             /\ loop[r].trail[Len(loop[r].trail)].call = "sent"
             /\ loop[r].trail[Len(loop[r].trail)].status = resp[r][1].status

\* The response of a later attempt was passed through after an earlier
\* attempt had left a response with another status.
C35_Witness ==
    \E r \in Req :
       /\ PassedThrough(r)
       /\ Len(loop[r].sent) > 1
       /\ \E i \in 1..(Len(loop[r].trail) - 1) :
             /\ loop[r].trail[i].err = ""
             /\ loop[r].trail[i].status # resp[r][1].status

\* The handler holds the response of an earlier attempt while its last
\* attempt failed on the transport.
C35_WitnessStale ==
    \E r \in Req :
       /\ loop[r].lastErr = "transport"
       /\ loop[r].resp # <<>>
       /\ Len(loop[r].sent) > 1

\* The first attempt failed on the transport: there is no response and no
\* status code is read without the "resp != nil" guard.
C35_WitnessNone ==
    \E r \in Req :
       /\ loop[r].lastErr = "transport"
       /\ loop[r].resp = <<>>
       /\ resp[r] # <<>>

(***************************************************************************)
(* Which requests get a bookkeeping goroutine.                             *)
(***************************************************************************)
\* The caller of r has been answered by the gateway itself.
GatewayAnswered(r) == pc[r] = "done" /\ resp[r][1].by = "gateway"

\* Nothing was ever done on behalf of r by a bookkeeping goroutine.
NoBookkeeping(r) ==
    /\ hist[r].scheduled = 0
    /\ task[r].state = "none"
    /\ hist[r].tpmCalls = 0
    /\ hist[r].sinkCalls = <<>>
    /\ \A u \in usage : u.request_id # r

\* C36: the goroutine of a request is started once, and exactly when its
\* handler passes the upstream response through, whatever its status; a
\* request the gateway answers itself never gets one, no TPM counter is
\* changed and no usage record stored for it: every change of a TPM counter
\* and of the usage table is a step of the goroutine of a request whose
\* response was passed through.
C36_BookkeepingIffPassthrough ==
    /\ [](\A r \in Req :
             /\ hist[r].scheduled <= 1
             /\ hist[r].scheduled = 1 <=> PassedThrough(r)
             /\ ~PassedThrough(r) => NoBookkeeping(r)
             /\ GatewayAnswered(r) =>
                   /\ resp[r][1].status \in {401, 429, 400, 403, 404, 413, 500, 502}
                   /\ NoBookkeeping(r))
    /\ [][\A k \in DOMAIN rl' :
             k[1] = "tpm" /\ Count(rl', k) # Count(rl, k) =>
                \E r \in Req :
                   /\ PassedThrough(r)
                   /\ task[r].state = "tpm" /\ task'[r].state = "log"
                   /\ k = TpmKey(r)
                   /\ Count(rl', k) = Count(rl, k) + task[r].in + task[r].out]_vars
    /\ [][usage' # usage =>
             \E r \in Req :
                /\ PassedThrough(r)
                /\ task[r].state = "log"
                /\ usage' = usage \cup {UsageRecord(r)}]_vars

\* Goroutines were started for a passed-through 302, 404 and 429, the last
\* one after a second attempt.
C36_Witness ==
    \E r, q \in Req :
       /\ r # q
       /\ PassedThrough(r) /\ resp[r][1].status = 429
       /\ Len(loop[r].sent) = 2
       /\ hist[r].scheduled = 1 /\ task[r].state = "done"
       /\ PassedThrough(q) /\ resp[q][1].status \in {302, 404}
       /\ task[q].state = "done"

\* The gateway answered 502 and an admission 429 itself, while the TPM
\* counter of the tenant stayed where another request's goroutine left it.
C36_WitnessGateway ==
    \E r, q \in Req :
       /\ r # q
       /\ GatewayAnswered(r) /\ resp[r][1].status \in {502, 429}
       /\ loop[r].sent # <<>> \/ resp[r][1].status = 429
       /\ PassedThrough(q) /\ task[q].state = "done"
       /\ usage # {}

(***************************************************************************)
(* Cancellation during the retry loop.                                     *)
(***************************************************************************)
\* The client of r went away while the handler of r was in the retry loop.
CanceledInLoop(r) ==
    /\ hist[r].cancelAt # <<>>
    /\ hist[r].cancelAt[1].pc = "retry"

\* C37: after the client of a request went away during the retry loop, the
\* handler makes no further call upstream and sleeps no further backoff for
\* it, and no iteration made with the canceled context is counted as a
\* failure by the breaker.
C37_CancelStopsRetries ==
    /\ [](\A r \in Req :
             CanceledInLoop(r) =>
                /\ loop[r].calls = hist[r].cancelAt[1].calls
                /\ Len(loop[r].slept) = hist[r].cancelAt[1].slept)
    /\ [][\A r \in Req :
             /\ CanceledInLoop(r)
             /\ loop'[r].calls > loop[r].calls
             => /\ cb'.failures = CBCurrent(cb, now).failures
                /\ cb'.state = CBCurrent(cb, now).state]_vars

\* The calls made for a request whose client had gone away opened the
\* breaker, and the request of another tenant was refused by it.
C37_BreakerOpenedByCancel ==
    \E r, q \in Req :
       /\ r # q
       /\ CanceledInLoop(r)
       /\ \A i \in 1..hist[r].cancelAt[1].calls : loop[r].trail[i].err = ""
       /\ hist[q].cancelAt = <<>>
       /\ tenantCtx[q] # <<>> /\ tenantCtx[r] # <<>>
       /\ tenantCtx[q][1].tenant_id # tenantCtx[r][1].tenant_id
       /\ loop[q].trail # <<>>
       /\ loop[q].trail[1].call = "open"
       /\ Answered(q, 502, "Upstream provider failed")

\* A handler slept a backoff after its client had gone away.
C37_SleptAfterCancel ==
    \E r \in Req :
       /\ CanceledInLoop(r)
       /\ Len(loop[r].slept) > hist[r].cancelAt[1].slept
       /\ loop[r].slept[Len(loop[r].slept)] > 0

(***************************************************************************)
(* What a successful Handler.Shutdown says about the counter.              *)
(***************************************************************************)
\* proxyHandler.Shutdown(ctx) has returned nil to main.
ShutdownSucceeded == main.pc = "exited" /\ main.err = ""

\* C38: when Handler.Shutdown has returned nil, the counter of h.wg is zero
\* and no goroutine is outstanding, whether srv.Shutdown before it returned
\* nil or hit the deadline.
C38_SuccessMeansIdle ==
    ShutdownSucceeded =>
       /\ wg = 0
       /\ \A r \in Req : task[r].state \notin {"tpm", "log"}

\* The same for the runs in which srv.Shutdown returned nil: no handler was
\* running any more when Handler.Shutdown was called.
C38_SuccessMeansIdleAfterDrain ==
    ShutdownSucceeded /\ main.srvErr = "" =>
       /\ wg = 0
       /\ \A r \in Req : task[r].state \notin {"tpm", "log"}

\* srv.Shutdown hit the deadline with a handler running, h.wg.Wait returned
\* on a counter of zero, the handler then started its goroutine, and the
\* select took the closed done channel: Shutdown returned nil with a
\* goroutine outstanding.
C38_ScheduledAfterWait ==
    /\ ShutdownSucceeded
    /\ main.srvErr = "context deadline exceeded"
    /\ main.pending = {}
    /\ wg = 1
    /\ \E r \in Req : task[r].state = "tpm"

====
